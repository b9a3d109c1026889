------------------------- MODULE StreamCore_proofs -------------------------
(***************************************************************************)
(* Machine-checked proofs about StreamCore, for every ring, window and     *)
(* stride the elaboration-time assertions of the code allow.               *)
(***************************************************************************)
EXTENDS StreamCore, TLAPS

-----------------------------------------------------------------------------
(* Ring arithmetic. *)

LEMMA ZeroType ==
  /\ 0 \in Slots /\ 0 \in Nat /\ 0 \in 0 .. WINDOW_LEN /\ 0 \in 0 .. CNT_MAX /\ 0 \in 0 .. 0
  /\ TORN \in Nat /\ MIXED \in Nat
  BY GeometryAssumption DEF Slots, TORN, MIXED, CNT_MAX

LEMMA NextSlotType == \A s \in Slots : NextSlot(s) \in Slots
  BY GeometryAssumption DEF Slots, NextSlot

LEMMA SlotBeforeType ==
  \A s \in Slots, k \in 0 .. HIST_DEPTH : SlotBefore(s, k) \in Slots
  BY GeometryAssumption DEF Slots, SlotBefore

\* Advancing the pointer by one moves every older slot one place further back.
LEMMA SlotBeforeNext ==
  \A s \in Slots, k \in 0 .. HIST_DEPTH - 1 :
    SlotBefore(NextSlot(s), k + 1) = SlotBefore(s, k)
  BY GeometryAssumption DEF Slots, SlotBefore, NextSlot

\* Only the slot k = 0 (or HIST_DEPTH) places back is the write slot itself.
LEMMA SlotBeforeOther ==
  \A s \in Slots, k \in 1 .. HIST_DEPTH - 1 : SlotBefore(s, k) # s
  BY GeometryAssumption DEF Slots, SlotBefore

\* Walking j slots forward from k places back ends k - j places back.
LEMMA SlotAfterBefore ==
  \A s \in Slots, k \in 0 .. HIST_DEPTH, j \in 0 .. HIST_DEPTH :
    j < k => SlotAfter(SlotBefore(s, k), j) = SlotBefore(s, k - j)
  BY GeometryAssumption DEF Slots, SlotBefore, SlotAfter

\* The conditional addition or subtraction of KwsPkg is what a pointer does that
\* drops its carry, on a ring of any size.
LEMMA SmallModulus == \A x \in 0 .. HIST_DEPTH + HIST_DEPTH - 1 :
                        x % HIST_DEPTH = IF x < HIST_DEPTH THEN x ELSE x - HIST_DEPTH
<1> SUFFICES ASSUME NEW h \in Nat, NEW x \in 0 .. h + h - 1
             PROVE  x % h = IF x < h THEN x ELSE x - h
  BY GeometryAssumption
<1>1. h > 0
  OBVIOUS
<1> QED
  BY <1>1

LEMMA WrapIsModular ==
  ASSUME NEW s \in Slots, NEW k \in 0 .. HIST_DEPTH
  PROVE  /\ NextSlot(s) = (s + 1) % HIST_DEPTH
         /\ SlotAfter(s, k) = (s + k) % HIST_DEPTH
         /\ SlotBefore(s, k) = ((s + HIST_DEPTH) - k) % HIST_DEPTH
<1>1. HIST_DEPTH \in Nat
  BY GeometryAssumption
<1>2. s + 1 \in 0 .. HIST_DEPTH + HIST_DEPTH - 1 /\ NextSlot(s) = IF s + 1 < HIST_DEPTH THEN s + 1 ELSE (s + 1) - HIST_DEPTH
  BY <1>1 DEF Slots, NextSlot
<1>3. s + k \in 0 .. HIST_DEPTH + HIST_DEPTH - 1
  BY <1>1 DEF Slots
<1>4. SlotAfter(s, k) = IF s + k < HIST_DEPTH THEN s + k ELSE (s + k) - HIST_DEPTH
  BY <1>1 DEF Slots, SlotAfter
<1>5. /\ (s + HIST_DEPTH) - k \in 0 .. HIST_DEPTH + HIST_DEPTH - 1
      /\ SlotBefore(s, k) = IF (s + HIST_DEPTH) - k < HIST_DEPTH THEN (s + HIST_DEPTH) - k
                                                                ELSE ((s + HIST_DEPTH) - k) - HIST_DEPTH
  BY <1>1 DEF Slots, SlotBefore
<1> QED
  BY <1>2, <1>3, <1>4, <1>5, SmallModulus

\* Two facts of arithmetic, for terms the provers are shy of when primed.
LEMMA SelfDifference == \A a \in Nat : a - a = 0
  OBVIOUS

LEMMA SmallDifference ==
  \A a, b, c \in Nat :
    b = a \/ b = a + 1 => /\ a <= b /\ b - a <= c + 1
                          /\ b - a = 0 \/ b - a = 1
  OBVIOUS

-----------------------------------------------------------------------------
(* Type correctness. *)

LEMMA FbufType ==
  ASSUME FbufTypeOK, NEW clear \in BOOLEAN, NEW write \in BOOLEAN,
         NEW commit \in BOOLEAN, NEW frame \in Nat,
         FbufEdge(clear, write, commit, frame)
  PROVE  FbufTypeOK'
  <1>1. wr_frame' \in Slots
    BY NextSlotType, ZeroType DEF FbufTypeOK, FbufEdge, PointerEdge
  <1>2. frames_total' \in 0 .. WINDOW_LEN /\ newest_fn' \in Nat
    BY GeometryAssumption DEF FbufTypeOK, FbufEdge, PointerEdge
  <1>3. mem' \in [Slots -> Nat]
    BY DEF FbufTypeOK, FbufEdge, MemoryEdge, TORN
  <1>4. QED
    BY <1>1, <1>2, <1>3 DEF FbufTypeOK

LEMMA SchedType ==
  ASSUME SchedTypeOK, NEW clear \in BOOLEAN, NEW enable \in BOOLEAN,
         NEW commit \in BOOLEAN, NEW wr \in Slots, NEW total, NEW newest \in Nat,
         NEW busy \in BOOLEAN,
         SchedEdge(clear, enable, commit, wr, total, newest, busy)
  PROVE  SchedTypeOK'
  <1> DEFINE issue == IssueNow(enable, total, busy)
             drop == DropNow(busy)
             spend == (issue /\ StrideDue) \/ drop
  <1>1. issue \in BOOLEAN /\ drop \in BOOLEAN
    BY DEF IssueNow, DropNow
  <1>2. spend => stride_cnt >= WINDOW_STRIDE
    BY DEF DropNow, StrideDue
  <1>3. Credit(commit, spend) \in 0 .. CNT_MAX
    BY <1>2, GeometryAssumption DEF Credit, SchedTypeOK, CNT_MAX
  <1>4. SlotBefore(wr, WINDOW_LEN) \in Slots
    BY SlotBeforeType, GeometryAssumption
  <1>5. CASE clear
    BY <1>5, ZeroType DEF SchedEdge, SchedTypeOK
  <1>6. CASE ~clear
    <2>1. stride_cnt' = Credit(commit, spend)
      BY <1>6 DEF SchedEdge
    <2>2. issue_o' = issue /\ drop_o' = drop /\ first_done' = (first_done \/ issue)
      BY <1>6 DEF SchedEdge
    <2>3. win_base' \in Slots /\ win_fn' \in Nat
      BY <1>4, <1>6 DEF SchedEdge, SchedTypeOK
    <2>4. QED
      BY <1>1, <1>3, <2>1, <2>2, <2>3 DEF SchedTypeOK
  <1>7. QED
    BY <1>5, <1>6

LEMMA ChainType ==
  ASSUME ChainTypeOK, NEW rst \in BOOLEAN, NEW start \in BOOLEAN,
         NEW base \in Slots, NEW fn \in Nat,
         ChainEdge(rst, start, base, fn)
  PROVE  ChainTypeOK'
  <1>1. conv' \in {"IDLE", "RUN"} /\ conv_done' \in BOOLEAN
        /\ conv_base' \in Slots /\ act_fn' \in Nat
    BY ZeroType DEF ChainTypeOK, ChainEdge, ConvEdge, Keep
  <1>2. pool' \in {"IDLE", "RUN"} /\ pool_done' \in BOOLEAN /\ pooled_fn' \in Nat
    BY ZeroType DEF ChainTypeOK, ChainEdge, PoolEdge, Keep, Carry
  <1>3. cls' \in {"IDLE", "RUN"} /\ cls_done' \in BOOLEAN /\ logits_fn' \in Nat
    BY ZeroType DEF ChainTypeOK, ChainEdge, ClsEdge, Carry
  <1>4. smooth_update' \in BOOLEAN /\ smooth_fn' \in Nat
    BY ZeroType DEF ChainTypeOK, ChainEdge, HandoffEdge, Keep
  <1>5. acc' \in {"CLR", "IDLE", "FOLD"} /\ acc_busy_d' \in BOOLEAN /\ fold_fn' \in Nat
    BY ZeroType DEF ChainTypeOK, ChainEdge, AccEdge, Keep
  <1>6. pend' \in BOOLEAN /\ phase' \in {"IDLE", "SCAN"}
        /\ detect' \in BOOLEAN /\ eval_fn' \in Nat
    BY ZeroType DEF ChainTypeOK, ChainEdge, PhaseEdge
  <1>7. QED
    BY <1>1, <1>2, <1>3, <1>4, <1>5, <1>6 DEF ChainTypeOK

LEMMA CtrlType ==
  ASSUME CtrlTypeOK, NEW frame \in BOOLEAN, NEW cmd,
         RegisterEdge(cmd), clr_pulse' = ClrStream,
         pkt_q' = (frame \/ cmd \in Commands), HistoryEdge(frame /\ stream_en)
  PROVE  CtrlTypeOK'
  <1>1. stream_en' \in BOOLEAN /\ soft_clear' \in BOOLEAN /\ stream_clear' \in BOOLEAN
    BY DEF CtrlTypeOK, RegisterEdge
  <1>2. clr_pulse' \in BOOLEAN /\ pkt_q' \in BOOLEAN
    BY DEF CtrlTypeOK, ClrStream
  <1>3. fseq' \in Nat /\ sess' \in 0 .. fseq' /\ drop_seen' \in BOOLEAN
    <2>1. fseq' \in {fseq, fseq + 1}
      BY DEF HistoryEdge
    <2>2. sess' \in {fseq', sess}
      BY DEF HistoryEdge
    <2>3. drop_seen' \in BOOLEAN
      BY DEF HistoryEdge, CtrlTypeOK
    <2>4. QED
      BY <2>1, <2>2, <2>3 DEF CtrlTypeOK
  <1>4. issues' \in Nat /\ drops' \in Nat /\ first_at' \in Nat
    BY DEF CtrlTypeOK, HistoryEdge, FramesInSession
  <1>5. QED
    BY <1>1, <1>2, <1>3, <1>4 DEF CtrlTypeOK

\* One clock edge keeps every register in its range.
LEMMA EdgeType ==
  ASSUME TypeOK, NEW write \in BOOLEAN, NEW frame \in BOOLEAN, NEW cmd,
         Edge(write, frame, cmd)
  PROVE  TypeOK'
  <1>1. ClrStream \in BOOLEAN /\ EngineReset \in BOOLEAN /\ EngineBusy \in BOOLEAN
    BY DEF ClrStream, EngineReset, EngineBusy, SmoothBusy, AccBusy
  <1>2. FbufTypeOK'
    BY FbufType, <1>1 DEF TypeOK, Edge, CtrlTypeOK
  <1>3. SchedTypeOK'
    BY SchedType, <1>1 DEF TypeOK, Edge, CtrlTypeOK, FbufTypeOK
  <1>4. ChainTypeOK'
    BY ChainType, <1>1 DEF TypeOK, Edge, SchedTypeOK
  <1>5. CtrlTypeOK'
    BY CtrlType DEF TypeOK, Edge
  <1>6. QED
    BY <1>2, <1>3, <1>4, <1>5 DEF TypeOK

\* The inputs of a cycle as Next allows them.
GoodInputs(frame, cmd) ==
  /\ frame \/ cmd \in Commands => ~pkt_q
  /\ frame => acc # "CLR" /\ (Active => Lag < MAX_LAG)
  /\ ~(frame /\ cmd \in Commands)

\* Every step is a clock edge with inputs the environment may present.
LEMMA NextIsEdge ==
  Next => \E write \in BOOLEAN, frame \in BOOLEAN, cmd \in Commands \cup {"NONE"} :
            Edge(write, frame, cmd) /\ GoodInputs(frame, cmd)
  <1>1. "NONE" \notin Commands
    BY DEF Commands
  <1>2. QuietCycle => \E write \in BOOLEAN : Edge(write, FALSE, "NONE")
    BY DEF QuietCycle
  <1>3. QED
    BY <1>1, <1>2 DEF Next, FrameCycle, CommandCycle, GoodInputs

LEMMA InitType == Init => TypeOK
  <1> SUFFICES ASSUME Init PROVE TypeOK
    OBVIOUS
  <1>1. FbufTypeOK
    BY ZeroType DEF Init, FbufInit, FbufTypeOK
  <1>2. SchedTypeOK
    BY ZeroType DEF Init, SchedInit, SchedTypeOK
  <1>3. ChainTypeOK
    BY ZeroType DEF Init, ChainInit, ChainTypeOK
  <1>4. CtrlTypeOK
    BY ZeroType DEF Init, CtrlTypeOK
  <1>5. QED
    BY <1>1, <1>2, <1>3, <1>4 DEF TypeOK

\* Every register of the streaming path stays in the range its width gives it.
THEOREM TypeCorrect == Spec => []TypeOK
  <1>1. Init => TypeOK
    BY InitType
  <1>2. TypeOK /\ [Next]_vars => TypeOK'
    <2>1. CASE Next
      BY <2>1, NextIsEdge, EdgeType
    <2>2. CASE UNCHANGED vars
      BY <2>2 DEF vars, fbufVars, schedVars, chainVars, ctrlVars, histVars,
                  TypeOK, FbufTypeOK, SchedTypeOK, ChainTypeOK, CtrlTypeOK
    <2>3. QED
      BY <2>1, <2>2
  <1>3. QED
    BY <1>1, <1>2, PTL DEF Spec

-----------------------------------------------------------------------------
(* The ring.  None of this depends on the timing of the engines.           *)

\* What one edge does to the counters the ring invariant relates.
LEMMA EdgeFacts ==
  ASSUME NEW write \in BOOLEAN, NEW frame \in BOOLEAN, NEW cmd,
         TypeOK, Edge(write, frame, cmd), ~ClrStream
  PROVE  LET commit == frame /\ stream_en
             issue  == IssueNow(stream_en, frames_total, EngineBusy)
             drop   == DropNow(EngineBusy)
         IN /\ commit => /\ fseq' = fseq + 1
                         /\ wr_frame' = NextSlot(wr_frame)
                         /\ newest_fn' = fseq + 1
                         /\ frames_total' \in {frames_total, frames_total + 1}
                         /\ mem' = [mem EXCEPT ![wr_frame] = fseq + 1]
            /\ ~commit => /\ fseq' = fseq /\ wr_frame' = wr_frame
                          /\ newest_fn' = newest_fn
                          /\ frames_total' = frames_total
                          /\ mem' = mem \/ mem' = [mem EXCEPT ![wr_frame] = TORN]
            /\ sess' = sess
            /\ stride_cnt' = Credit(commit, (issue /\ StrideDue) \/ drop)
            /\ issue_o' = issue
            /\ first_done' = (first_done \/ issue)
            /\ issue => win_base' = SlotBefore(wr_frame, WINDOW_LEN) /\ win_fn' = newest_fn
            /\ ~issue => win_base' = win_base /\ win_fn' = win_fn
            /\ drop_seen' = IF conv = "IDLE" THEN FALSE ELSE drop_seen \/ drop
            /\ pkt_q' = (frame \/ cmd \in Commands)
  <1> DEFINE commit == frame /\ stream_en
             issue == IssueNow(stream_en, frames_total, EngineBusy)
             drop == DropNow(EngineBusy)
  <1>1. PointerEdge(ClrStream, commit, fseq + 1) /\ MemoryEdge(write \/ frame, commit, fseq + 1)
    BY DEF Edge, FbufEdge
  <1>2. SchedEdge(ClrStream, stream_en, commit, wr_frame, frames_total, newest_fn, EngineBusy)
    BY DEF Edge
  <1>3. HistoryEdge(commit) /\ pkt_q' = (frame \/ cmd \in Commands)
    BY DEF Edge
  <1>4. commit => /\ wr_frame' = NextSlot(wr_frame)
                  /\ newest_fn' = fseq + 1
                  /\ frames_total' \in {frames_total, frames_total + 1}
                  /\ mem' = [mem EXCEPT ![wr_frame] = fseq + 1]
    BY <1>1 DEF PointerEdge, MemoryEdge
  <1>5. ~commit => /\ wr_frame' = wr_frame /\ newest_fn' = newest_fn
                   /\ frames_total' = frames_total
                   /\ mem' = mem \/ mem' = [mem EXCEPT ![wr_frame] = TORN]
    BY <1>1 DEF PointerEdge, MemoryEdge
  <1>6. /\ fseq' = IF commit THEN fseq + 1 ELSE fseq
        /\ sess' = sess
        /\ drop_seen' = IF conv = "IDLE" THEN FALSE ELSE drop_seen \/ drop
    BY <1>3 DEF HistoryEdge
  <1>7. /\ stride_cnt' = Credit(commit, (issue /\ StrideDue) \/ drop)
        /\ issue_o' = issue
        /\ first_done' = (first_done \/ issue)
        /\ win_base' = IF issue THEN SlotBefore(wr_frame, WINDOW_LEN) ELSE win_base
        /\ win_fn' = IF issue THEN newest_fn ELSE win_fn
    BY <1>2 DEF SchedEdge
  <1>8. QED
    BY <1>3, <1>4, <1>5, <1>6, <1>7

LEMMA RingClear ==
  ASSUME TypeOK, TypeOK', NEW write \in BOOLEAN, NEW frame \in BOOLEAN, NEW cmd,
         Edge(write, frame, cmd), ClrStream
  PROVE  RingInv'
  <1>1. /\ frames_total' = 0 /\ stride_cnt' = 0 /\ issue_o' = FALSE /\ first_done' = FALSE
    BY DEF Edge, FbufEdge, PointerEdge, SchedEdge
  <1>2. sess' = fseq'
    BY DEF Edge, HistoryEdge
  <1>3. conv' = "IDLE"
    BY DEF Edge, EngineReset, ChainEdge, ConvEdge
  <1>4. FramesInSession' = 0
    <2>1. fseq' \in Nat
      BY DEF TypeOK, CtrlTypeOK
    <2>2. fseq' - fseq' = 0
      BY <2>1, SelfDifference
    <2>3. QED
      BY <1>2, <2>2 DEF FramesInSession
  <1>5. DebtBounded' /\ CountsAgree'
    BY <1>1, <1>4, GeometryAssumption DEF DebtBounded, CountsAgree
  <1>r. RingContents'
    BY <1>4, GeometryAssumption DEF RingContents
  <1>6. IssuedWindow' /\ LatchedWindow'
    BY <1>1, <1>3 DEF IssuedWindow, LatchedWindow
  <1>7. QED
    BY <1>5, <1>r, <1>6 DEF RingInv

LEMMA RingStep ==
  ASSUME TypeOK, TypeOK', RingInv, NEW write \in BOOLEAN, NEW frame \in BOOLEAN, NEW cmd,
         Edge(write, frame, cmd), GoodInputs(frame, cmd), ~ClrStream
  PROVE  RingInv'
  <1> DEFINE commit == frame /\ stream_en
             issue == IssueNow(stream_en, frames_total, EngineBusy)
             drop == DropNow(EngineBusy)
             spend == (issue /\ StrideDue) \/ drop
  <1>t. /\ fseq \in Nat /\ sess \in Nat /\ sess <= fseq
        /\ stride_cnt \in Nat /\ win_fn \in Nat /\ act_fn \in Nat
        /\ wr_frame \in Slots /\ mem \in [Slots -> Nat] /\ frames_total \in 0 .. WINDOW_LEN
    BY GeometryAssumption
    DEF TypeOK, FbufTypeOK, SchedTypeOK, ChainTypeOK, CtrlTypeOK, CNT_MAX
  <1>c. /\ commit => /\ fseq' = fseq + 1
                     /\ wr_frame' = NextSlot(wr_frame)
                     /\ newest_fn' = fseq + 1
                     /\ frames_total' \in {frames_total, frames_total + 1}
                     /\ mem' = [mem EXCEPT ![wr_frame] = fseq + 1]
        /\ ~commit => /\ fseq' = fseq /\ wr_frame' = wr_frame
                      /\ newest_fn' = newest_fn
                      /\ frames_total' = frames_total
                      /\ mem' = mem \/ mem' = [mem EXCEPT ![wr_frame] = TORN]
        /\ sess' = sess
    BY EdgeFacts
  <1>s. /\ stride_cnt' = Credit(commit, spend)
        /\ issue_o' = issue
        /\ first_done' = (first_done \/ issue)
        /\ issue => win_base' = SlotBefore(wr_frame, WINDOW_LEN) /\ win_fn' = newest_fn
        /\ drop_seen' = IF conv = "IDLE" THEN FALSE ELSE drop_seen \/ drop
        /\ pkt_q' = (frame \/ cmd \in Commands)
    BY EdgeFacts
  <1>p. frame => ~pkt_q
    BY DEF GoodInputs
  <1>n. FramesInSession' = IF commit THEN FramesInSession + 1 ELSE FramesInSession
    BY <1>t, <1>c DEF FramesInSession
  <1> HIDE DEF commit, issue, drop, spend
  <1>1. DebtBounded'
    <2>1. commit => stream_en
      BY DEF commit
    <2>2. spend => stride_cnt >= WINDOW_STRIDE
      BY DEF spend, drop, DropNow, StrideDue
    <2>3. first_done /\ stream_en /\ stride_cnt >= 2 * WINDOW_STRIDE => spend
      BY <1>t, GeometryAssumption DEF spend, drop, issue, DropNow, IssueNow, StrideDue
    <2>4. stride_cnt <= 2 * WINDOW_STRIDE
      BY DEF RingInv, DebtBounded
    <2>5. QED
      BY <1>t, <1>s, <2>1, <2>2, <2>3, <2>4, GeometryAssumption DEF DebtBounded, Credit
  <1>2. RingContents'
    <2> SUFFICES ASSUME NEW i \in 1 .. HIST_DEPTH - 1, i <= FramesInSession'
                 PROVE  mem'[SlotBefore(wr_frame', i)] = (fseq' + 1) - i
      BY DEF RingContents
    <2>1. CASE ~commit
      <3>1. SlotBefore(wr_frame, i) \in Slots /\ SlotBefore(wr_frame, i) # wr_frame
        BY <1>t, SlotBeforeType, SlotBeforeOther, GeometryAssumption
      <3>2. mem'[SlotBefore(wr_frame, i)] = mem[SlotBefore(wr_frame, i)]
        BY <2>1, <3>1, <1>t, <1>c
      <3>3. QED
        BY <2>1, <3>2, <1>c, <1>n DEF RingInv, RingContents
    <2>2. CASE commit /\ i = 1
      <3>1. SlotBefore(wr_frame', 1) = wr_frame
        BY <2>2, <1>t, <1>c, GeometryAssumption DEF SlotBefore, NextSlot, Slots
      <3>2. QED
        BY <2>2, <3>1, <1>t, <1>c
    <2>3. CASE commit /\ i > 1
      <3>1. i - 1 \in 1 .. HIST_DEPTH - 1 /\ i - 1 <= FramesInSession
        BY <2>3, <1>t, <1>n, GeometryAssumption DEF FramesInSession
      <3>2. SlotBefore(wr_frame', i) = SlotBefore(wr_frame, i - 1)
        <4>1. i - 1 \in 0 .. HIST_DEPTH - 1 /\ (i - 1) + 1 = i
          BY GeometryAssumption
        <4>2. QED
          BY <4>1, <2>3, <1>t, <1>c, SlotBeforeNext
      <3>3. SlotBefore(wr_frame, i - 1) \in Slots /\ SlotBefore(wr_frame, i - 1) # wr_frame
        BY <3>1, <1>t, SlotBeforeType, SlotBeforeOther, GeometryAssumption
      <3>4. mem'[SlotBefore(wr_frame, i - 1)] = mem[SlotBefore(wr_frame, i - 1)]
        BY <2>3, <3>3, <1>t, <1>c
      <3>5. mem[SlotBefore(wr_frame, i - 1)] = (fseq + 1) - (i - 1)
        BY <3>1 DEF RingInv, RingContents
      <3>6. QED
        BY <2>3, <3>2, <3>4, <3>5, <1>t, <1>c
    <2>4. QED
      BY <2>1, <2>2, <2>3
  <1>3. CountsAgree'
    <2>1. FramesInSession \in Nat
      BY <1>t DEF FramesInSession
    <2>2. frames_total' <= FramesInSession' /\ (FramesInSession' > 0 => newest_fn' = fseq')
      BY <1>t, <1>c, <1>n, <2>1 DEF RingInv, CountsAgree
    <2>3. first_done' => FramesInSession >= WINDOW_LEN
      BY <1>s, <1>t, <2>1
      DEF issue, IssueNow, FirstDue, StrideDue, RingInv, CountsAgree
    <2>4. QED
      BY <1>n, <2>1, <2>2, <2>3, GeometryAssumption DEF CountsAgree
  <1>4. IssuedWindow'
    <2> SUFFICES ASSUME issue
                 PROVE  /\ first_done'
                        /\ sess' + WINDOW_LEN <= win_fn'
                        /\ win_fn' = fseq' \/ (fseq' = win_fn' + 1 /\ pkt_q')
                        /\ win_base' = SlotBefore(wr_frame', WINDOW_LEN + Lag')
      BY <1>s DEF IssuedWindow
    <2>1. FramesInSession >= WINDOW_LEN /\ newest_fn = fseq
      BY <1>t, GeometryAssumption
      DEF issue, IssueNow, FirstDue, StrideDue, RingInv, CountsAgree, FramesInSession
    <2>2. win_fn' = fseq /\ win_base' = SlotBefore(wr_frame, WINDOW_LEN)
      BY <1>s, <2>1
    <2>3. sess' + WINDOW_LEN <= win_fn'
      BY <1>t, <1>c, <2>1, <2>2, GeometryAssumption DEF FramesInSession
    <2>4. CASE commit
      <3>0. fseq' = win_fn' + 1 /\ fseq' - win_fn' = 1
        BY <1>t, <1>c, <2>2, <2>4
      <3>1. fseq' = win_fn' + 1 /\ Lag' = 1 /\ pkt_q'
        BY <1>s, <2>4, <3>0 DEF Lag, commit
      <3>2. win_base' = SlotBefore(wr_frame', WINDOW_LEN + 1)
        BY <1>t, <1>c, <2>2, <2>4, SlotBeforeNext, GeometryAssumption
      <3>3. QED
        BY <1>s, <2>3, <3>1, <3>2
    <2>5. CASE ~commit
      <3>1. fseq' = win_fn' /\ WINDOW_LEN + Lag' = WINDOW_LEN
        BY <1>t, <1>c, <2>2, <2>5, GeometryAssumption DEF Lag
      <3>2. QED
        BY <1>c, <1>s, <2>2, <2>3, <2>5, <3>1
    <2>6. QED
      BY <2>4, <2>5
  <1>5. LatchedWindow'
    <2> SUFFICES ASSUME conv' = "RUN"
                 PROVE  LatchedWindow'
      BY DEF LatchedWindow
    <2> DEFINE d == fseq - act_fn
               dn == fseq' - act_fn'
    <2>1. ConvEdge(EngineReset, issue_o, win_base, win_fn)
      BY DEF Edge, ChainEdge
    <2>2. stride_cnt' \in Nat
      BY GeometryAssumption DEF TypeOK, SchedTypeOK, CNT_MAX
    <2>3. CASE conv = "IDLE"
      <3>1. issue_o /\ conv_base' = win_base /\ act_fn' = win_fn
        BY <2>1, <2>3 DEF ConvEdge
      <3>2. /\ first_done
            /\ sess + WINDOW_LEN <= win_fn
            /\ win_fn = fseq \/ (fseq = win_fn + 1 /\ pkt_q)
            /\ win_base = SlotBefore(wr_frame, WINDOW_LEN + Lag)
        BY <3>1 DEF RingInv, IssuedWindow
      <3>3. CASE commit
        <4>1. win_fn = fseq /\ dn = 1 /\ WINDOW_LEN + Lag = WINDOW_LEN
          BY <1>t, <1>c, <1>p, <3>1, <3>2, <3>3, GeometryAssumption DEF Lag, commit
        <4>2. conv_base' = SlotBefore(wr_frame', WINDOW_LEN + 1)
          BY <1>t, <1>c, <3>1, <3>2, <3>3, <4>1, SlotBeforeNext, GeometryAssumption
        <4>3. first_done' /\ sess' + WINDOW_LEN <= act_fn'
          BY <1>c, <1>s, <3>1, <3>2
        <4>4. act_fn' <= fseq' /\ dn <= stride_cnt' + 1 /\ WINDOW_LEN + dn = WINDOW_LEN + 1
          <5>1. act_fn' = fseq /\ fseq' = fseq + 1
            BY <1>c, <3>1, <3>3, <4>1
          <5>2. act_fn' \in Nat /\ fseq' \in Nat
            BY <1>t, <5>1
          <5>3. act_fn' <= fseq' /\ fseq' - act_fn' <= stride_cnt' + 1
            BY <2>2, <5>1, <5>2, SmallDifference
          <5>4. QED
            BY <4>1, <5>3
        <4>5. QED
          BY <4>2, <4>3, <4>4 DEF LatchedWindow
      <3>4. CASE ~commit
        <4>1. dn = Lag /\ dn \in {0, 1}
          BY <1>t, <1>c, <3>1, <3>2, <3>4 DEF Lag
        <4>2. first_done' /\ sess' + WINDOW_LEN <= act_fn'
          BY <1>c, <1>s, <3>1, <3>2
        <4>3. act_fn' <= fseq' /\ dn <= stride_cnt' + 1
          <5>1. act_fn' \in Nat /\ fseq' \in Nat
            BY <1>t, <1>c, <3>1, <3>4
          <5>2. fseq' = act_fn' \/ fseq' = act_fn' + 1
            BY <1>t, <1>c, <3>1, <3>2, <3>4
          <5>3. QED
            BY <2>2, <5>1, <5>2, SmallDifference
        <4>4. conv_base' = SlotBefore(wr_frame', WINDOW_LEN + dn)
          BY <1>c, <3>1, <3>2, <3>4, <4>1
        <4>5. QED
          BY <4>2, <4>3, <4>4 DEF LatchedWindow
      <3>5. QED
        BY <3>3, <3>4
    <2>4. CASE conv = "RUN"
      <3>1. conv_base' = conv_base /\ act_fn' = act_fn
        BY <2>1, <2>4 DEF ConvEdge
      <3>2. /\ first_done
            /\ sess + WINDOW_LEN <= act_fn /\ act_fn <= fseq
            /\ drop_seen \/ d <= stride_cnt + 1
            /\ WINDOW_LEN + d <= HIST_DEPTH =>
                 conv_base = SlotBefore(wr_frame, WINDOW_LEN + d)
        BY <2>4 DEF RingInv, LatchedWindow
      <3>3. ~issue /\ (~drop => ~spend) /\ drop_seen' = (drop_seen \/ drop)
        BY <1>s, <2>4 DEF issue, spend, IssueNow, EngineBusy
      <3>4. stride_cnt <= 2 * WINDOW_STRIDE
        BY DEF RingInv, DebtBounded
      <3>5. dn = (IF commit THEN d + 1 ELSE d) /\ d \in Nat /\ act_fn' <= fseq'
        BY <1>t, <1>c, <3>1, <3>2
      <3>6. ~drop_seen' => dn <= stride_cnt' + 1
        <4> SUFFICES ASSUME ~drop_seen'
                     PROVE  dn <= stride_cnt' + 1
          OBVIOUS
        <4>1. ~spend /\ d <= stride_cnt + 1
          BY <3>2, <3>3
        <4>2. stride_cnt' = IF commit THEN stride_cnt + 1 ELSE stride_cnt
          BY <1>t, <1>s, <3>2, <3>4, <4>1, GeometryAssumption DEF Credit, CNT_MAX
        <4>3. QED
          BY <1>t, <3>5, <4>1, <4>2
      <3>7. WINDOW_LEN + dn <= HIST_DEPTH =>
              conv_base' = SlotBefore(wr_frame', WINDOW_LEN + dn)
        <4>1. CASE commit
          <5> SUFFICES ASSUME WINDOW_LEN + dn <= HIST_DEPTH
                       PROVE  conv_base' = SlotBefore(wr_frame', WINDOW_LEN + dn)
            OBVIOUS
          <5>1. WINDOW_LEN + d \in 0 .. HIST_DEPTH - 1 /\ (WINDOW_LEN + d) + 1 = WINDOW_LEN + dn
            BY <3>5, <4>1, GeometryAssumption
          <5>2. conv_base = SlotBefore(wr_frame, WINDOW_LEN + d)
            BY <3>2, <5>1, GeometryAssumption
          <5>3. QED
            BY <1>t, <1>c, <3>1, <4>1, <5>1, <5>2, SlotBeforeNext
        <4>2. CASE ~commit
          BY <1>c, <3>1, <3>2, <3>5, <4>2
        <4>3. QED
          BY <4>1, <4>2
      <3>8. first_done' /\ sess' + WINDOW_LEN <= act_fn'
        BY <1>c, <1>s, <3>1, <3>2
      <3>9. QED
        BY <3>5, <3>6, <3>7, <3>8 DEF LatchedWindow
    <2>5. QED
      BY <2>3, <2>4 DEF TypeOK, ChainTypeOK
  <1>6. QED
    BY <1>1, <1>2, <1>3, <1>4, <1>5 DEF RingInv

LEMMA RingInductive == TypeOK /\ RingInv /\ [Next]_vars => RingInv'
  <1> SUFFICES ASSUME TypeOK, RingInv, [Next]_vars PROVE RingInv'
    OBVIOUS
  <1>1. ASSUME NEW write \in BOOLEAN, NEW frame \in BOOLEAN,
               NEW cmd \in Commands \cup {"NONE"},
               Edge(write, frame, cmd), GoodInputs(frame, cmd)
        PROVE  RingInv'
    <2>1. TypeOK'
      BY <1>1, EdgeType
    <2>2. CASE ClrStream
      BY <1>1, <2>1, <2>2, RingClear
    <2>3. CASE ~ClrStream
      BY <1>1, <2>1, <2>3, RingStep
    <2>4. QED
      BY <2>2, <2>3
  <1>2. CASE UNCHANGED vars
    BY <1>2
    DEF vars, fbufVars, schedVars, chainVars, ctrlVars, histVars, RingInv, DebtBounded,
        RingContents, CountsAgree, IssuedWindow, LatchedWindow, FramesInSession, Lag
  <1>3. QED
    BY <1>1, <1>2, NextIsEdge

LEMMA RingInit == Init => RingInv
  BY GeometryAssumption
  DEF Init, FbufInit, SchedInit, ChainInit, RingInv, DebtBounded, RingContents,
      CountsAgree, IssuedWindow, LatchedWindow, FramesInSession

\* The ring invariant holds in every reachable state, at any timing.
THEOREM RingInvariant == Spec => []RingInv
  <1>1. Init => RingInv
    BY RingInit
  <1>2. TypeOK /\ RingInv /\ [Next]_vars => RingInv'
    BY RingInductive
  <1>3. QED
    BY <1>1, <1>2, TypeCorrect, PTL DEF Spec

\* The scheduling debt of a slow engine stays within two strides.
THEOREM DebtStaysBounded == Spec => []DebtBounded
  <1>1. RingInv => DebtBounded
    BY DEF RingInv
  <1>2. QED
    BY <1>1, RingInvariant, PTL

\* A latched window that the writer has not reached is still readable.
LEMMA ReadableWithinRing ==
  ASSUME TypeOK, RingInv, conv = "RUN", WINDOW_LEN + (fseq - act_fn) < HIST_DEPTH
  PROVE  WindowReadable
  <1> DEFINE d == fseq - act_fn
  <1>1. /\ fseq \in Nat /\ sess \in Nat /\ act_fn \in Nat /\ act_fn <= fseq
        /\ sess + WINDOW_LEN <= act_fn /\ wr_frame \in Slots
    BY DEF TypeOK, FbufTypeOK, ChainTypeOK, CtrlTypeOK, RingInv, LatchedWindow
  <1>2. conv_base = SlotBefore(wr_frame, WINDOW_LEN + d)
    BY <1>1, GeometryAssumption DEF RingInv, LatchedWindow
  <1> SUFFICES ASSUME NEW j \in 0 .. WINDOW_LEN - 1
               PROVE  mem[SlotAfter(conv_base, j)] = (act_fn + 1 + j) - WINDOW_LEN
    BY DEF WindowReadable
  <1> DEFINE i == (WINDOW_LEN + d) - j
  <1>3. /\ WINDOW_LEN + d \in 0 .. HIST_DEPTH /\ j \in 0 .. HIST_DEPTH
        /\ j < WINDOW_LEN + d /\ i \in 1 .. HIST_DEPTH - 1
        /\ i <= fseq - sess
    BY <1>1, GeometryAssumption
  <1>4. SlotAfter(conv_base, j) = SlotBefore(wr_frame, i)
    BY <1>1, <1>2, <1>3, SlotAfterBefore
  <1>5. mem[SlotBefore(wr_frame, i)] = (fseq + 1) - i
    BY <1>3 DEF RingInv, RingContents, FramesInSession
  <1>6. (fseq + 1) - i = (act_fn + 1 + j) - WINDOW_LEN
    BY <1>1, GeometryAssumption
  <1>7. QED
    BY <1>4, <1>5, <1>6

\* In a ring with the spare stride of the delivered geometry, the writer never
\* reaches a window under the convolution before a drop has been counted.
THEOREM OverrunIsReported == OverrunMargin => (Spec => []OverrunReported)
  <1> SUFFICES ASSUME OverrunMargin PROVE Spec => []OverrunReported
    OBVIOUS
  <1>1. TypeOK /\ RingInv => OverrunReported
    <2> SUFFICES ASSUME TypeOK, RingInv, conv = "RUN", ~drop_seen
                 PROVE  WindowReadable
      BY DEF OverrunReported
    <2>1. fseq - act_fn <= stride_cnt + 1 /\ stride_cnt <= 2 * WINDOW_STRIDE
      BY DEF RingInv, LatchedWindow, DebtBounded
    <2>2. WINDOW_LEN + (fseq - act_fn) < HIST_DEPTH
      BY <2>1, GeometryAssumption
      DEF OverrunMargin, TypeOK, SchedTypeOK, ChainTypeOK, CtrlTypeOK, CNT_MAX
    <2>3. QED
      BY <2>2, ReadableWithinRing
  <1>2. QED
    BY <1>1, TypeCorrect, RingInvariant, PTL
-----------------------------------------------------------------------------
(* Nominal timing: one window at a time.                                   *)

\* The smoother folds, waits or scans for a window.
Smoothing == acc = "FOLD" \/ pend \/ phase = "SCAN"

\* A window is in the chain; Active also covers the sweep after a reset.
Working ==
  \/ issue_o \/ conv = "RUN" \/ conv_done \/ pool = "RUN" \/ pool_done
  \/ cls = "RUN" \/ cls_done \/ smooth_update \/ Smoothing

\* A window is in one stage or strobe of the chain, and in no two.
OneWindow ==
  /\ issue_o => ~(conv = "RUN" \/ conv_done \/ pool = "RUN" \/ pool_done \/ cls = "RUN"
                  \/ cls_done \/ smooth_update \/ Smoothing)
  /\ conv = "RUN" => ~(conv_done \/ pool = "RUN" \/ pool_done \/ cls = "RUN"
                       \/ cls_done \/ smooth_update \/ Smoothing)
  /\ conv_done => ~(pool = "RUN" \/ pool_done \/ cls = "RUN"
                    \/ cls_done \/ smooth_update \/ Smoothing)
  /\ pool = "RUN" => ~(pool_done \/ cls = "RUN" \/ cls_done \/ smooth_update \/ Smoothing)
  /\ pool_done => ~(cls = "RUN" \/ cls_done \/ smooth_update \/ Smoothing)
  /\ cls = "RUN" => ~(cls_done \/ smooth_update \/ Smoothing)
  /\ cls_done => ~(smooth_update \/ Smoothing)
  /\ smooth_update => ~Smoothing
  /\ acc = "CLR" => ~Working

\* A reset empties the chain and the schedule with it.
ResetPace ==
  /\ clr_pulse => acc = "CLR"
  /\ acc = "CLR" => frames_total = 0 /\ ~first_done
  /\ ~first_done => stride_cnt = 0 /\ ~Working

\* While a window is in the chain, no stride is earned: what is credited came in
\* behind it.
WorkPace ==
  /\ win_fn <= fseq
  /\ stride_cnt <= WINDOW_STRIDE
  /\ Working => Lag <= MAX_LAG /\ stride_cnt <= Lag

Due == StrideDue \/ FirstDue(frames_total)

\* A window falls due in the cycle after a commit, and then the chain is idle.
DuePace == Due => ~Active /\ stream_en /\ pkt_q

PaceInv == OneWindow /\ ResetPace /\ WorkPace /\ DuePace

\* Every buffer that a stage will still read is of the window last issued, and that
\* window is of the session.
Provenance ==
  /\ conv = "RUN" \/ conv_done \/ pool = "RUN" => act_fn = win_fn
  /\ pool = "RUN" \/ pool_done \/ cls = "RUN" => pooled_fn = win_fn
  /\ cls = "RUN" \/ cls_done => logits_fn = win_fn
  /\ smooth_update => smooth_fn = win_fn
  /\ Smoothing => fold_fn = win_fn
  /\ detect => eval_fn = win_fn
  /\ Working \/ detect => sess + WINDOW_LEN <= win_fn

\* Every start strobe of the chain and what a stage does with it, one edge of it.
LEMMA ChainMoves ==
  ASSUME TypeOK, NEW base, NEW fn, ChainEdge(FALSE, issue_o, base, fn)
  PROVE  /\ conv' = "RUN" => conv = "RUN" \/ issue_o
         /\ conv_done' => conv = "RUN" /\ conv' # "RUN"
         /\ pool' = "RUN" => pool = "RUN" \/ conv_done
         /\ pool_done' => pool = "RUN" /\ pool' # "RUN"
         /\ cls' = "RUN" => cls = "RUN" \/ pool_done
         /\ cls_done' => cls = "RUN" /\ cls' # "RUN"
         /\ smooth_update' => cls_done
         /\ Smoothing' => Smoothing \/ smooth_update
         /\ acc' = "CLR" => acc = "CLR"
         /\ detect' => phase = "SCAN"
  <1>1. /\ conv' = "RUN" => conv = "RUN" \/ issue_o
        /\ conv_done' => conv = "RUN" /\ conv' # "RUN"
    BY DEF TypeOK, ChainTypeOK, ChainEdge, ConvEdge
  <1>2. /\ pool' = "RUN" => pool = "RUN" \/ conv_done
        /\ pool_done' => pool = "RUN" /\ pool' # "RUN"
    BY DEF TypeOK, ChainTypeOK, ChainEdge, PoolEdge
  <1>3. /\ cls' = "RUN" => cls = "RUN" \/ pool_done
        /\ cls_done' => cls = "RUN" /\ cls' # "RUN"
    BY DEF TypeOK, ChainTypeOK, ChainEdge, ClsEdge
  <1>4. smooth_update' => cls_done
    BY DEF ChainEdge, HandoffEdge
  <1>5. /\ acc' = "FOLD" => acc = "FOLD" \/ smooth_update
        /\ acc' = "CLR" => acc = "CLR"
    BY DEF TypeOK, ChainTypeOK, ChainEdge, AccEdge
  <1>6. /\ pend' => pend \/ smooth_update
        /\ phase' = "SCAN" => phase = "SCAN" \/ pend
        /\ detect' => phase = "SCAN"
    BY DEF TypeOK, ChainTypeOK, ChainEdge, PhaseEdge, FoldEnded
  <1>7. QED
    BY <1>1, <1>2, <1>3, <1>4, <1>5, <1>6 DEF Smoothing

\* The engine reset takes every window out of the chain.
LEMMA ResetEmpties ==
  ASSUME NEW start, NEW base, NEW fn, ChainEdge(TRUE, start, base, fn)
  PROVE  /\ conv' = "IDLE" /\ ~conv_done' /\ pool' = "IDLE" /\ ~pool_done'
         /\ cls' = "IDLE" /\ ~cls_done' /\ ~smooth_update' /\ acc' = "CLR"
         /\ ~pend' /\ phase' = "IDLE" /\ ~detect'
  BY DEF ChainEdge, ConvEdge, PoolEdge, ClsEdge, HandoffEdge, AccEdge, PhaseEdge

LEMMA ActiveMeans == TypeOK => (Active <=> Working \/ acc = "CLR")
  BY DEF Active, ChainActive, Working, Smoothing, TypeOK, ChainTypeOK

\* With one window at a time the scheduler issues whatever falls due, and never drops.
LEMMA IssuesWhatIsDue ==
  ASSUME TypeOK, DuePace
  PROVE  /\ IssueNow(stream_en, frames_total, EngineBusy) <=> Due
         /\ ~DropNow(EngineBusy)
  <1>1. EngineBusy => Active
    BY DEF EngineBusy, SmoothBusy, AccBusy, Active, ChainActive
  <1>2. Due => ~EngineBusy /\ stream_en
    BY <1>1 DEF DuePace
  <1>3. QED
    BY <1>2 DEF IssueNow, DropNow, Due

LEMMA PaceClear ==
  ASSUME TypeOK, TypeOK', PaceInv, NEW write \in BOOLEAN, NEW frame \in BOOLEAN, NEW cmd,
         Edge(write, frame, cmd), ClrStream
  PROVE  PaceInv'
  <1>1. /\ conv' = "IDLE" /\ ~conv_done' /\ pool' = "IDLE" /\ ~pool_done'
        /\ cls' = "IDLE" /\ ~cls_done' /\ ~smooth_update' /\ acc' = "CLR"
        /\ ~pend' /\ phase' = "IDLE"
    <2>1. EngineReset
      BY DEF EngineReset
    <2>2. ChainEdge(TRUE, issue_o, win_base, win_fn)
      BY <2>1 DEF Edge, ChainEdge, ConvEdge, PoolEdge, ClsEdge, HandoffEdge, AccEdge, PhaseEdge
    <2>3. QED
      BY <2>2, ResetEmpties
  <1>2. /\ frames_total' = 0 /\ stride_cnt' = 0 /\ first_done' = FALSE /\ issue_o' = FALSE
        /\ win_fn' = win_fn
    BY DEF Edge, FbufEdge, PointerEdge, SchedEdge
  <1>3. fseq' \in {fseq, fseq + 1}
    BY DEF Edge, HistoryEdge
  <1>4. ~Working'
    BY <1>1, <1>2 DEF Working, Smoothing
  <1>5. OneWindow'
    BY <1>1, <1>2, <1>4 DEF OneWindow, Smoothing
  <1>6. ResetPace'
    BY <1>1, <1>2, <1>4 DEF ResetPace
  <1>7. WorkPace'
    BY <1>2, <1>3, <1>4, GeometryAssumption
    DEF PaceInv, WorkPace, TypeOK, SchedTypeOK, CtrlTypeOK
  <1>8. DuePace'
    BY <1>2, GeometryAssumption DEF DuePace, Due, StrideDue, FirstDue
  <1>9. QED
    BY <1>5, <1>6, <1>7, <1>8 DEF PaceInv

\* Where the windows go in an edge that clears nothing.
LEMMA WindowMoves ==
  ASSUME TypeOK, TypeOK', PaceInv, NEW write \in BOOLEAN, NEW frame \in BOOLEAN, NEW cmd,
         Edge(write, frame, cmd), ~ClrStream
  PROVE  /\ OneWindow'
         /\ Working' => Working \/ Due
         /\ acc' = "CLR" => acc = "CLR"
         /\ issue_o' <=> Due
  <1>1. issue_o' <=> Due
    BY IssuesWhatIsDue, EdgeFacts DEF PaceInv
  <1>2. Due => ~Working /\ acc # "CLR"
    BY ActiveMeans DEF PaceInv, DuePace
  <1>3. CASE clr_pulse
    <2>1. ChainEdge(TRUE, issue_o, win_base, win_fn)
      BY <1>3 DEF EngineReset, Edge, ChainEdge, ConvEdge, PoolEdge, ClsEdge, HandoffEdge,
                  AccEdge, PhaseEdge
    <2>2. acc = "CLR"
      BY <1>3 DEF PaceInv, ResetPace
    <2>3. ~issue_o'
      BY <1>1, <1>2, <2>2
    <2>4. ~Working'
      BY <2>1, <2>3, ResetEmpties DEF Working, Smoothing
    <2>5. OneWindow'
      BY <2>1, <2>3, <2>4, ResetEmpties DEF OneWindow, Smoothing
    <2>6. QED
      BY <1>1, <2>2, <2>4, <2>5
  <1>4. CASE ~clr_pulse
    <2>1. ChainEdge(FALSE, issue_o, win_base, win_fn)
      BY <1>4 DEF EngineReset, Edge, ChainEdge, ConvEdge, PoolEdge, ClsEdge, HandoffEdge,
                  AccEdge, PhaseEdge
    <2>2. /\ conv' = "RUN" => conv = "RUN" \/ issue_o
          /\ conv_done' => conv = "RUN" /\ conv' # "RUN"
          /\ pool' = "RUN" => pool = "RUN" \/ conv_done
          /\ pool_done' => pool = "RUN" /\ pool' # "RUN"
          /\ cls' = "RUN" => cls = "RUN" \/ pool_done
          /\ cls_done' => cls = "RUN" /\ cls' # "RUN"
          /\ smooth_update' => cls_done
          /\ Smoothing' => Smoothing \/ smooth_update
          /\ acc' = "CLR" => acc = "CLR"
      BY <2>1, ChainMoves
    <2>3. OneWindow
      BY DEF PaceInv
    <2>4. ~Working => ~(issue_o \/ conv = "RUN" \/ conv_done \/ pool = "RUN" \/ pool_done
                        \/ cls = "RUN" \/ cls_done \/ smooth_update \/ Smoothing)
      BY DEF Working
    <2>5. Working' => Working \/ Due
      BY <1>1, <2>2 DEF Working
    <2>6. acc' = "CLR" => ~Working'
      BY <1>2, <2>2, <2>3, <2>5 DEF OneWindow
    <2>7. OneWindow'
      BY <1>1, <1>2, <2>2, <2>3, <2>4, <2>6 DEF OneWindow
    <2>8. QED
      BY <1>1, <2>2, <2>5, <2>7
  <1>5. QED
    BY <1>3, <1>4

LEMMA PaceStep ==
  ASSUME NominalTiming, TypeOK, TypeOK', RingInv, PaceInv,
         NEW write \in BOOLEAN, NEW frame \in BOOLEAN, NEW cmd,
         Edge(write, frame, cmd), GoodInputs(frame, cmd), ~ClrStream
  PROVE  PaceInv'
  <1> DEFINE commit == frame /\ stream_en
  <1>t. /\ fseq \in Nat /\ win_fn \in Nat /\ stride_cnt \in Nat /\ newest_fn \in Nat
        /\ first_done \in BOOLEAN /\ stream_en \in BOOLEAN
        /\ frames_total \in 0 .. WINDOW_LEN /\ MAX_LAG \in Nat /\ MAX_LAG < WINDOW_STRIDE
    BY EnvironmentAssumption
    DEF TypeOK, FbufTypeOK, SchedTypeOK, CtrlTypeOK, CNT_MAX, NominalTiming
  <1>m. /\ OneWindow'
        /\ Working' => Working \/ Due
        /\ acc' = "CLR" => acc = "CLR"
        /\ issue_o' <=> Due
    BY WindowMoves
  <1>i. /\ Due => ~Working /\ acc # "CLR" /\ stream_en /\ pkt_q
        /\ IssueNow(stream_en, frames_total, EngineBusy) <=> Due
        /\ ~DropNow(EngineBusy)
    BY IssuesWhatIsDue, ActiveMeans DEF PaceInv, DuePace
  <1>e. /\ fseq' = IF commit THEN fseq + 1 ELSE fseq
        /\ ~commit => frames_total' = frames_total
        /\ stride_cnt' = Credit(commit, Due /\ StrideDue)
        /\ first_done' = (first_done \/ Due)
        /\ Due => win_fn' = newest_fn
        /\ ~Due => win_fn' = win_fn
        /\ pkt_q' = (frame \/ cmd \in Commands)
    BY <1>i, EdgeFacts
  <1>g. /\ frame => ~pkt_q /\ acc # "CLR" /\ (Active => Lag < MAX_LAG) /\ cmd \notin Commands
        /\ clr_pulse' = FALSE
    BY DEF GoodInputs, Edge
  <1>a. Active <=> Working \/ acc = "CLR"
    BY ActiveMeans
  <1>p. /\ clr_pulse => acc = "CLR"
        /\ acc = "CLR" => frames_total = 0 /\ ~first_done
        /\ ~first_done => stride_cnt = 0 /\ ~Working
        /\ win_fn <= fseq /\ stride_cnt <= WINDOW_STRIDE
        /\ Working => Lag <= MAX_LAG /\ stride_cnt <= Lag
    BY DEF PaceInv, ResetPace, WorkPace
  <1>d. Due <=> \/ first_done /\ stride_cnt >= WINDOW_STRIDE
                \/ frames_total = WINDOW_LEN /\ ~first_done
    BY DEF Due, StrideDue, FirstDue
  <1> HIDE DEF commit
  <1>c. commit => frame /\ stream_en
    BY DEF commit
  <1>1. CASE Due
    <2>1. ~commit
      BY <1>1, <1>i, <1>g, <1>c
    <2>2. newest_fn = fseq
      BY <1>1, <1>t, <1>d, GeometryAssumption
      DEF RingInv, CountsAgree, FramesInSession, TypeOK, CtrlTypeOK
    <2>3. stride_cnt' = 0 /\ first_done' = TRUE /\ win_fn' = fseq /\ fseq' = fseq
      <3>0. first_done' = TRUE /\ win_fn' = fseq /\ fseq' = fseq
        BY <1>1, <1>e, <2>1, <2>2
      <3>1. CASE first_done
        <4>1. stride_cnt = WINDOW_STRIDE
          BY <1>1, <1>t, <1>p, <1>d, <3>1, GeometryAssumption
        <4>2. stride_cnt' = Credit(FALSE, TRUE)
          BY <1>1, <1>e, <2>1, <3>1, <4>1, GeometryAssumption DEF StrideDue, Credit
        <4>3. QED
          BY <1>t, <3>0, <4>1, <4>2, GeometryAssumption DEF Credit
      <3>2. CASE ~first_done
        <4>1. stride_cnt = 0 /\ ~StrideDue
          BY <1>p, <3>2 DEF StrideDue
        <4>2. QED
          BY <1>e, <2>1, <3>0, <4>1 DEF Credit
      <3>3. QED
        BY <3>1, <3>2
    <2>4. Lag' = 0
      BY <2>3, <1>t, SelfDifference DEF Lag
    <2>5. ~Due'
      BY <2>3, GeometryAssumption DEF Due, StrideDue, FirstDue
    <2>6. ResetPace' /\ DuePace'
      BY <1>1, <1>m, <1>i, <1>g, <2>3, <2>5 DEF ResetPace, DuePace
    <2>7. WorkPace'
      BY <1>t, <2>3, <2>4, GeometryAssumption DEF WorkPace
    <2>8. QED
      BY <1>m, <2>6, <2>7 DEF PaceInv
  <1>2. CASE ~Due
    <2>1. /\ stride_cnt' = IF commit /\ first_done THEN stride_cnt + 1 ELSE stride_cnt
          /\ first_done' = first_done /\ win_fn' = win_fn
      BY <1>2, <1>t, <1>e, <1>p, GeometryAssumption DEF Credit, CNT_MAX
    <2>2. Working' => Working
      BY <1>2, <1>m
    <2>3. Working => /\ first_done /\ stride_cnt' <= MAX_LAG
                     /\ stride_cnt' <= fseq' - win_fn' /\ fseq' - win_fn' <= MAX_LAG
      BY <1>t, <1>e, <1>g, <1>a, <1>p, <1>c, <2>1 DEF Lag
    <2>4. WorkPace'
      <3>1. win_fn' <= fseq'
        BY <1>t, <1>e, <1>p, <2>1
      <3>2. stride_cnt' <= WINDOW_STRIDE
        BY <1>2, <1>t, <1>p, <1>d, <2>1, GeometryAssumption
      <3>3. QED
        BY <2>2, <2>3, <3>1, <3>2 DEF WorkPace, Lag
    <2>5. ResetPace'
      <3>1. acc' = "CLR" => frames_total' = 0 /\ ~first_done'
        BY <1>m, <1>e, <1>g, <1>p, <1>c, <2>1
      <3>2. ~first_done' => stride_cnt' = 0 /\ ~Working'
        BY <1>p, <2>1, <2>2
      <3>3. QED
        BY <1>g, <3>1, <3>2 DEF ResetPace
    <2>6. DuePace'
      <3> SUFFICES ASSUME Due' PROVE ~Active' /\ stream_en' /\ pkt_q'
        BY DEF DuePace
      <3>1. \/ first_done /\ stride_cnt' >= WINDOW_STRIDE
            \/ frames_total' = WINDOW_LEN /\ ~first_done
        BY <2>1 DEF Due, StrideDue, FirstDue
      <3>2. commit
        BY <1>2, <1>e, <1>d, <2>1, <3>1
      <3>3. ~Working
        <4>1. stride_cnt' \in Nat
          BY <1>t, <2>1
        <4>2. QED
          BY <1>t, <2>3, <3>1, <4>1, GeometryAssumption
      <3>4. acc # "CLR"
        BY <1>g, <1>c, <3>2
      <3>5. ~Active'
        BY <1>m, <2>2, <3>3, <3>4
        DEF Active, ChainActive, Working, Smoothing, TypeOK, ChainTypeOK
      <3>6. stream_en' /\ pkt_q'
        BY <1>g, <1>e, <1>c, <3>2 DEF Edge, RegisterEdge, Commands
      <3>7. QED
        BY <3>5, <3>6
    <2>7. QED
      BY <1>m, <2>4, <2>5, <2>6 DEF PaceInv
  <1>3. QED
    BY <1>1, <1>2

LEMMA PaceInit == Init => PaceInv
  BY GeometryAssumption, EnvironmentAssumption
  DEF Init, FbufInit, SchedInit, ChainInit, PaceInv, OneWindow, ResetPace, WorkPace, DuePace,
      Due, StrideDue, FirstDue, Working, Smoothing, Lag

LEMMA PaceInductive ==
  ASSUME NominalTiming
  PROVE  TypeOK /\ RingInv /\ PaceInv /\ [Next]_vars => PaceInv'
  <1> SUFFICES ASSUME TypeOK, RingInv, PaceInv, [Next]_vars PROVE PaceInv'
    OBVIOUS
  <1>1. ASSUME NEW write \in BOOLEAN, NEW frame \in BOOLEAN,
               NEW cmd \in Commands \cup {"NONE"},
               Edge(write, frame, cmd), GoodInputs(frame, cmd)
        PROVE  PaceInv'
    <2>1. TypeOK'
      BY <1>1, EdgeType
    <2>2. CASE ClrStream
      BY <1>1, <2>1, <2>2, PaceClear
    <2>3. CASE ~ClrStream
      BY <1>1, <2>1, <2>3, PaceStep
    <2>4. QED
      BY <2>2, <2>3
  <1>2. CASE UNCHANGED vars
    BY <1>2
    DEF vars, fbufVars, schedVars, chainVars, ctrlVars, histVars, PaceInv, OneWindow,
        ResetPace, WorkPace, DuePace, Due, StrideDue, FirstDue, Working, Smoothing, Lag,
        Active, ChainActive
  <1>3. QED
    BY <1>1, <1>2, NextIsEdge

\* When an inference ends before the next window is due, no start strobe of the chain
\* finds its stage at work.
THEOREM StartsAreTaken == NominalTiming => (Spec => []NoStartLost)
  <1> SUFFICES ASSUME NominalTiming PROVE Spec => []NoStartLost
    OBVIOUS
  <1>1. TypeOK /\ RingInv /\ PaceInv /\ [Next]_vars => PaceInv'
    BY PaceInductive
  <1>2. TypeOK /\ PaceInv => NoStartLost
    BY DEF PaceInv, OneWindow, NoStartLost, Working, Smoothing, TypeOK, ChainTypeOK
  <1>3. QED
    BY <1>1, <1>2, PaceInit, TypeCorrect, RingInvariant, PTL DEF Spec

\* Provenance travels with the window, stage by stage.
LEMMA ProvenanceMoves ==
  ASSUME TypeOK, OneWindow, Provenance, ChainEdge(FALSE, issue_o, win_base, win_fn)
  PROVE  /\ conv' = "RUN" \/ conv_done' \/ pool' = "RUN" => act_fn' = win_fn
         /\ pool' = "RUN" \/ pool_done' \/ cls' = "RUN" => pooled_fn' = win_fn
         /\ cls' = "RUN" \/ cls_done' => logits_fn' = win_fn
         /\ smooth_update' => smooth_fn' = win_fn
         /\ Smoothing' => fold_fn' = win_fn
         /\ detect' => eval_fn' = win_fn
         /\ Working' => Working \/ issue_o'
         /\ detect' => Working
  <1>1. conv' = "RUN" \/ conv_done' \/ pool' = "RUN" => act_fn' = win_fn
    <2>1. pool' = "RUN" => pool = "RUN" \/ conv_done
      BY ChainMoves
    <2>2. conv = "RUN" \/ conv_done \/ pool = "RUN" => act_fn = win_fn
      BY DEF Provenance
    <2>3. ConvEdge(FALSE, issue_o, win_base, win_fn)
      BY DEF ChainEdge
    <2>4. issue_o => ~conv_done /\ pool # "RUN"
      BY DEF OneWindow
    <2>5. QED
      BY <2>1, <2>2, <2>3, <2>4 DEF ConvEdge, Keep, TypeOK, ChainTypeOK
  <1>2. pool' = "RUN" \/ pool_done' \/ cls' = "RUN" => pooled_fn' = win_fn
    <2>1. cls' = "RUN" => cls = "RUN" \/ pool_done
      BY ChainMoves
    <2>2. PoolEdge(FALSE)
      BY DEF ChainEdge
    <2>3. conv_done => ~pool_done /\ cls # "RUN"
      BY DEF OneWindow
    <2>4. QED
      BY <2>1, <2>2, <2>3 DEF PoolEdge, Keep, Carry, Provenance, TypeOK, ChainTypeOK
  <1>3. cls' = "RUN" \/ cls_done' => logits_fn' = win_fn
    <2>1. ClsEdge(FALSE)
      BY DEF ChainEdge
    <2>2. QED
      BY <2>1 DEF ClsEdge, Carry, Provenance, TypeOK, ChainTypeOK
  <1>4. smooth_update' => smooth_fn' = win_fn
    BY DEF ChainEdge, HandoffEdge, Keep, Provenance
  <1>5. Smoothing' => fold_fn' = win_fn
    <2>1. Smoothing' => Smoothing \/ smooth_update
      BY ChainMoves
    <2>2. smooth_update => ~Smoothing /\ acc # "CLR" /\ smooth_fn = win_fn
      BY DEF OneWindow, Working, Provenance
    <2>3. Smoothing => ~smooth_update /\ acc # "CLR" /\ fold_fn = win_fn
      BY DEF OneWindow, Working, Provenance
    <2>4. AccEdge(FALSE)
      BY DEF ChainEdge
    <2>5. CASE smooth_update
      BY <2>2, <2>4, <2>5 DEF AccEdge, Smoothing, TypeOK, ChainTypeOK
    <2>6. CASE ~smooth_update /\ Smoothing
      <3>1. acc = "FOLD" => fold_fn' = fold_fn
        BY <2>4, <2>6 DEF AccEdge, Keep
      <3>2. acc = "IDLE" => fold_fn' = fold_fn
        BY <2>4, <2>6 DEF AccEdge, Keep, Smoothing
      <3>3. QED
        BY <2>3, <2>6, <3>1, <3>2 DEF TypeOK, ChainTypeOK
    <2>7. QED
      BY <2>1, <2>5, <2>6
  <1>6. detect' => eval_fn' = win_fn
    BY DEF ChainEdge, PhaseEdge, Provenance, Smoothing
  <1>7. Working' => Working \/ issue_o'
    BY ChainMoves DEF Working
  <1>8. detect' => Working
    BY ChainMoves DEF Working, Smoothing
  <1>9. QED
    BY <1>1, <1>2, <1>3, <1>4, <1>5, <1>6, <1>7, <1>8

LEMMA ProvenanceStep ==
  ASSUME TypeOK, TypeOK', RingInv, PaceInv, Provenance,
         NEW write \in BOOLEAN, NEW frame \in BOOLEAN, NEW cmd,
         Edge(write, frame, cmd), GoodInputs(frame, cmd)
  PROVE  Provenance'
  <1>1. CASE EngineReset
    <2>1. ChainEdge(TRUE, issue_o, win_base, win_fn)
      BY <1>1 DEF Edge, ChainEdge, ConvEdge, PoolEdge, ClsEdge, HandoffEdge, AccEdge, PhaseEdge
    <2>2. ~issue_o'
      <3>1. CASE ClrStream
        BY <3>1 DEF Edge, SchedEdge
      <3>2. CASE ~ClrStream
        <4>1. acc = "CLR"
          BY <1>1, <3>2 DEF EngineReset, PaceInv, ResetPace
        <4>2. ~Due
          BY <4>1, ActiveMeans DEF PaceInv, DuePace
        <4>3. QED
          BY <3>2, <4>2, WindowMoves
      <3>3. QED
        BY <3>1, <3>2
    <2>3. QED
      BY <2>1, <2>2, ResetEmpties DEF Provenance, Working, Smoothing
  <1>2. CASE ~EngineReset
    <2>1. ChainEdge(FALSE, issue_o, win_base, win_fn)
      BY <1>2 DEF Edge, ChainEdge, ConvEdge, PoolEdge, ClsEdge, HandoffEdge, AccEdge, PhaseEdge
    <2>2. ~ClrStream
      BY <1>2 DEF EngineReset
    <2>3. /\ Working' => Working \/ Due
          /\ issue_o' <=> Due
          /\ OneWindow'
      BY <2>2, WindowMoves
    <2>4. Due => ~Working
      BY ActiveMeans DEF PaceInv, DuePace
    <2>5. ~Due => win_fn' = win_fn /\ sess' = sess
      BY <2>2, IssuesWhatIsDue, EdgeFacts DEF PaceInv
    <2>6. CASE Due
      <3>1. ~detect'
        BY <2>1, <2>4, <2>6, ChainMoves DEF Working, Smoothing
      <3>2. /\ conv' # "RUN" /\ ~conv_done' /\ pool' # "RUN" /\ ~pool_done' /\ cls' # "RUN"
            /\ ~cls_done' /\ ~smooth_update' /\ ~Smoothing'
        BY <2>3, <2>6 DEF OneWindow
      <3>3. RingInv'
        BY <2>2, RingStep
      <3>4. sess' + WINDOW_LEN <= win_fn'
        BY <2>3, <2>6, <3>3 DEF RingInv, IssuedWindow
      <3>5. QED
        BY <3>1, <3>2, <3>4 DEF Provenance
    <2>7. CASE ~Due
      <3>1. Working' \/ detect' => Working
        BY <2>1, <2>3, <2>7, ChainMoves DEF Working, Smoothing
      <3>2. Working' \/ detect' => sess' + WINDOW_LEN <= win_fn'
        BY <2>5, <2>7, <3>1 DEF Provenance
      <3>3. OneWindow
        BY DEF PaceInv
      <3>4. QED
        BY <2>1, <2>5, <2>7, <3>2, <3>3, ProvenanceMoves DEF Provenance
    <2>8. QED
      BY <2>6, <2>7
  <1>3. QED
    BY <1>1, <1>2

LEMMA ProvenanceInductive ==
  TypeOK /\ RingInv /\ PaceInv /\ Provenance /\ [Next]_vars => Provenance'
  <1> SUFFICES ASSUME TypeOK, RingInv, PaceInv, Provenance, [Next]_vars PROVE Provenance'
    OBVIOUS
  <1>1. ASSUME NEW write \in BOOLEAN, NEW frame \in BOOLEAN,
               NEW cmd \in Commands \cup {"NONE"},
               Edge(write, frame, cmd), GoodInputs(frame, cmd)
        PROVE  Provenance'
    BY <1>1, EdgeType, ProvenanceStep
  <1>2. CASE UNCHANGED vars
    BY <1>2 DEF vars, fbufVars, schedVars, chainVars, ctrlVars, histVars, Provenance,
                Working, Smoothing
  <1>3. QED
    BY <1>1, <1>2, NextIsEdge

LEMMA ProvenanceInit == Init => Provenance
  BY DEF Init, SchedInit, ChainInit, Provenance, Working, Smoothing

LEMMA PaceAndProvenance ==
  ASSUME NominalTiming
  PROVE  Spec => [](TypeOK /\ RingInv /\ PaceInv /\ Provenance)
  <1>1. TypeOK /\ RingInv /\ PaceInv /\ [Next]_vars => PaceInv'
    BY PaceInductive
  <1>2. QED
    BY <1>1, PaceInit, ProvenanceInit, ProvenanceInductive, TypeCorrect, RingInvariant, PTL
    DEF Spec

\* With that timing a detection carries the frame number of its own window, and the
\* window is of the running session, whatever restarts fall into its inference.
THEOREM DetectsItsWindow == NominalTiming => (Spec => []DetectAttribution)
  <1> SUFFICES ASSUME NominalTiming PROVE Spec => []DetectAttribution
    OBVIOUS
  <1>1. Provenance => DetectAttribution
    BY DEF Provenance, DetectAttribution
  <1>2. QED
    BY <1>1, PaceAndProvenance, PTL

\* With that timing no slot of a window is written while the convolution reads it.
THEOREM WindowStaysWhole == NominalTiming => (Spec => []WindowIntact)
  <1> SUFFICES ASSUME NominalTiming PROVE Spec => []WindowIntact
    OBVIOUS
  <1>1. TypeOK /\ RingInv /\ PaceInv /\ Provenance => WindowIntact
    <2> SUFFICES ASSUME TypeOK, RingInv, PaceInv, Provenance, conv = "RUN"
                 PROVE  WindowReadable
      BY DEF WindowIntact
    <2>1. act_fn = win_fn /\ fseq - win_fn <= MAX_LAG
      BY DEF Provenance, PaceInv, WorkPace, Working, Lag
    <2>2. WINDOW_LEN + (fseq - act_fn) < HIST_DEPTH
      BY <2>1, GeometryAssumption, EnvironmentAssumption
      DEF NominalTiming, TypeOK, SchedTypeOK, CtrlTypeOK
    <2>3. QED
      BY <2>2, ReadableWithinRing
  <1>2. QED
    BY <1>1, PaceAndProvenance, PTL

-----------------------------------------------------------------------------
(* The credit.  This again holds at any speed of the engines.              *)

\* The first window of a session falls due in the cycle after its last frame, with
\* the chain idle, so that no frame is accepted before it is issued.
FirstInv ==
  /\ ResetPace
  /\ FirstDue(frames_total) => ~Active /\ stream_en /\ pkt_q
  /\ ~first_done => FramesInSession = frames_total /\ issues = 0 /\ drops = 0

CreditInv ==
  first_done =>
    /\ issues + drops >= 1 /\ first_at = WINDOW_LEN
    /\ FramesInSession = first_at + ((issues + drops) - 1) * WINDOW_STRIDE + stride_cnt

LEMMA OneMoreStride ==
  \A m \in Nat : /\ (m + 1) * WINDOW_STRIDE = m * WINDOW_STRIDE + WINDOW_STRIDE
                 /\ m * WINDOW_STRIDE \in Nat /\ 0 * WINDOW_STRIDE = 0
  BY GeometryAssumption

\* What one edge does to the chain, and to the counts of a session.
LEMMA SessionFacts ==
  ASSUME TypeOK, TypeOK', ResetPace, NEW write \in BOOLEAN, NEW frame \in BOOLEAN, NEW cmd,
         Edge(write, frame, cmd), ~ClrStream
  PROVE  LET issue == IssueNow(stream_en, frames_total, EngineBusy)
             drop  == DropNow(EngineBusy)
         IN  /\ Working' => Working \/ issue
             /\ acc' = "CLR" => acc = "CLR"
             /\ issues' = IF issue THEN issues + 1 ELSE issues
             /\ drops' = IF drop THEN drops + 1 ELSE drops
             /\ first_at' = IF issue /\ ~first_done THEN FramesInSession ELSE first_at
  <1> DEFINE issue == IssueNow(stream_en, frames_total, EngineBusy)
             drop == DropNow(EngineBusy)
  <1>1. /\ issues' = IF issue THEN issues + 1 ELSE issues
        /\ drops' = IF drop THEN drops + 1 ELSE drops
        /\ first_at' = IF issue /\ ~first_done THEN FramesInSession ELSE first_at
    BY DEF Edge, HistoryEdge
  <1>2. issue_o' = issue
    BY EdgeFacts
  <1>3. CASE clr_pulse
    <2>1. ChainEdge(TRUE, issue_o, win_base, win_fn)
      BY <1>3 DEF EngineReset, Edge, ChainEdge, ConvEdge, PoolEdge, ClsEdge, HandoffEdge,
                  AccEdge, PhaseEdge
    <2>2. Working' => issue_o'
      BY <2>1, ResetEmpties DEF Working, Smoothing
    <2>3. acc = "CLR"
      BY <1>3 DEF ResetPace
    <2>4. QED
      BY <1>1, <1>2, <2>2, <2>3
  <1>4. CASE ~clr_pulse
    <2>1. ChainEdge(FALSE, issue_o, win_base, win_fn)
      BY <1>4 DEF EngineReset, Edge, ChainEdge, ConvEdge, PoolEdge, ClsEdge, HandoffEdge,
                  AccEdge, PhaseEdge
    <2>2. Working' => Working \/ issue_o'
      BY <2>1, ChainMoves DEF Working
    <2>3. acc' = "CLR" => acc = "CLR"
      BY <2>1, ChainMoves
    <2>4. QED
      BY <1>1, <1>2, <2>2, <2>3
  <1>5. QED
    BY <1>3, <1>4

LEMMA CreditClear ==
  ASSUME TypeOK, TypeOK', NEW write \in BOOLEAN, NEW frame \in BOOLEAN, NEW cmd,
         Edge(write, frame, cmd), ClrStream
  PROVE  FirstInv' /\ CreditInv'
  <1>1. ChainEdge(TRUE, issue_o, win_base, win_fn)
    BY DEF EngineReset, Edge, ChainEdge, ConvEdge, PoolEdge, ClsEdge, HandoffEdge,
           AccEdge, PhaseEdge
  <1>2. /\ frames_total' = 0 /\ stride_cnt' = 0 /\ first_done' = FALSE /\ issue_o' = FALSE
        /\ sess' = fseq' /\ issues' = 0 /\ drops' = 0
    BY DEF Edge, FbufEdge, PointerEdge, SchedEdge, HistoryEdge
  <1>3. ~Working' /\ acc' = "CLR"
    BY <1>1, <1>2, ResetEmpties DEF Working, Smoothing
  <1>4. ResetPace'
    BY <1>2, <1>3 DEF ResetPace
  <1>5. FramesInSession' = 0
    <2>1. fseq' - fseq' = 0
      BY SelfDifference DEF TypeOK, CtrlTypeOK
    <2>2. QED
      BY <1>2, <2>1 DEF FramesInSession
  <1>6. QED
    BY <1>2, <1>4, <1>5, GeometryAssumption DEF FirstInv, CreditInv, FirstDue

LEMMA FirstStep ==
  ASSUME TypeOK, TypeOK', FirstInv, NEW write \in BOOLEAN, NEW frame \in BOOLEAN, NEW cmd,
         Edge(write, frame, cmd), GoodInputs(frame, cmd), ~ClrStream
  PROVE  FirstInv'
  <1> DEFINE commit == frame /\ stream_en
             issue == IssueNow(stream_en, frames_total, EngineBusy)
             drop == DropNow(EngineBusy)
  <1>t. /\ fseq \in Nat /\ sess \in Nat /\ sess <= fseq /\ frames_total \in 0 .. WINDOW_LEN
        /\ stride_cnt \in Nat /\ issues \in Nat /\ drops \in Nat
    BY DEF TypeOK, FbufTypeOK, SchedTypeOK, CtrlTypeOK, CNT_MAX
  <1>f. /\ ResetPace
        /\ FirstDue(frames_total) => ~Active /\ stream_en /\ pkt_q
        /\ ~first_done => FramesInSession = frames_total /\ issues = 0 /\ drops = 0
    BY DEF FirstInv
  <1>s. /\ Working' => Working \/ issue
        /\ acc' = "CLR" => acc = "CLR"
        /\ issues' = IF issue THEN issues + 1 ELSE issues
        /\ drops' = IF drop THEN drops + 1 ELSE drops
    BY <1>f, SessionFacts
  <1>e. /\ fseq' = IF commit THEN fseq + 1 ELSE fseq
        /\ sess' = sess
        /\ ~commit => frames_total' = frames_total
        /\ stride_cnt' = Credit(commit, (issue /\ StrideDue) \/ drop)
        /\ first_done' = (first_done \/ issue)
        /\ pkt_q' = (frame \/ cmd \in Commands)
    BY EdgeFacts
  <1>w. commit /\ frames_total # WINDOW_LEN => frames_total' = frames_total + 1
    BY DEF Edge, FbufEdge, PointerEdge
  <1>g. /\ frame => ~pkt_q /\ acc # "CLR" /\ cmd \notin Commands
        /\ clr_pulse' = FALSE
    BY DEF GoodInputs, Edge
  <1>b. EngineBusy => Active
    BY DEF EngineBusy, SmoothBusy, AccBusy, Active, ChainActive
  <1>i. /\ FirstDue(frames_total) => issue /\ ~commit
        /\ ~first_done => (issue <=> FirstDue(frames_total)) /\ ~drop /\ ~StrideDue
    BY <1>f, <1>g, <1>b DEF IssueNow, DropNow, StrideDue, FirstDue
  <1>c. commit => frame /\ stream_en
    OBVIOUS
  <1> HIDE DEF commit, issue, drop
  <1>1. ResetPace'
    <2>1. acc' = "CLR" => frames_total' = 0 /\ ~first_done'
      <3>1. SUFFICES ASSUME acc' = "CLR" PROVE frames_total' = 0 /\ ~first_done'
        OBVIOUS
      <3>2. frames_total = 0 /\ ~first_done /\ ~commit
        BY <3>1, <1>s, <1>f, <1>g, <1>c DEF ResetPace
      <3>3. ~issue
        BY <3>2, <1>i, GeometryAssumption DEF FirstDue
      <3>4. QED
        BY <3>2, <3>3, <1>e
    <2>2. ~first_done' => stride_cnt' = 0 /\ ~Working'
      <3>1. SUFFICES ASSUME ~first_done' PROVE stride_cnt' = 0 /\ ~Working'
        OBVIOUS
      <3>2. ~first_done /\ ~issue
        BY <3>1, <1>e
      <3>3. stride_cnt = 0 /\ ~Working
        BY <3>2, <1>f DEF ResetPace
      <3>4. QED
        BY <3>2, <3>3, <1>i, <1>e, <1>s DEF Credit
    <2>3. QED
      BY <1>g, <2>1, <2>2 DEF ResetPace
  <1>2. ~first_done' => FramesInSession' = frames_total' /\ issues' = 0 /\ drops' = 0
    <2>1. SUFFICES ASSUME ~first_done'
                   PROVE  FramesInSession' = frames_total' /\ issues' = 0 /\ drops' = 0
      OBVIOUS
    <2>2. ~first_done /\ ~issue /\ ~drop /\ frames_total # WINDOW_LEN
      BY <2>1, <1>e, <1>i DEF FirstDue
    <2>3. issues' = 0 /\ drops' = 0
      BY <2>2, <1>f, <1>s
    <2>4. fseq - sess = frames_total
      BY <2>2, <1>f DEF FramesInSession
    <2>5. fseq' - sess' = frames_total'
      BY <2>2, <2>4, <1>t, <1>e, <1>w
    <2>6. QED
      BY <2>3, <2>5 DEF FramesInSession
  <1>3. FirstDue(frames_total)' => ~Active' /\ stream_en' /\ pkt_q'
    <2>1. SUFFICES ASSUME frames_total' = WINDOW_LEN, ~first_done'
                   PROVE  ~Active' /\ stream_en' /\ pkt_q'
      BY DEF FirstDue
    <2>2. ~first_done /\ ~issue /\ ~FirstDue(frames_total)
      BY <2>1, <1>e, <1>i
    <2>3. commit
      BY <2>1, <2>2, <1>e DEF FirstDue
    <2>4. ~Working' /\ acc' # "CLR"
      BY <2>2, <2>3, <1>s, <1>f, <1>g, <1>c DEF ResetPace
    <2>5. ~Active'
      BY <2>4 DEF Active, ChainActive, Working, Smoothing, TypeOK, ChainTypeOK
    <2>6. stream_en' /\ pkt_q'
      BY <2>3, <1>g, <1>e, <1>c DEF Edge, RegisterEdge, Commands
    <2>7. QED
      BY <2>5, <2>6
  <1>4. QED
    BY <1>1, <1>2, <1>3 DEF FirstInv

LEMMA CreditStep ==
  ASSUME TypeOK, TypeOK', RingInv, FirstInv, CreditInv,
         NEW write \in BOOLEAN, NEW frame \in BOOLEAN, NEW cmd,
         Edge(write, frame, cmd), GoodInputs(frame, cmd), ~ClrStream
  PROVE  CreditInv'
  <1> DEFINE commit == frame /\ stream_en
             issue == IssueNow(stream_en, frames_total, EngineBusy)
             drop == DropNow(EngineBusy)
             m == (issues + drops) - 1
  <1>t. /\ fseq \in Nat /\ sess \in Nat /\ sess <= fseq /\ frames_total \in 0 .. WINDOW_LEN
        /\ stride_cnt \in Nat /\ issues \in Nat /\ drops \in Nat
    BY DEF TypeOK, FbufTypeOK, SchedTypeOK, CtrlTypeOK, CNT_MAX
  <1>s. /\ issues' = IF issue THEN issues + 1 ELSE issues
        /\ drops' = IF drop THEN drops + 1 ELSE drops
        /\ first_at' = IF issue /\ ~first_done THEN FramesInSession ELSE first_at
    BY SessionFacts DEF FirstInv
  <1>e. /\ fseq' = IF commit THEN fseq + 1 ELSE fseq
        /\ sess' = sess
        /\ stride_cnt' = Credit(commit, (issue /\ StrideDue) \/ drop)
        /\ first_done' = (first_done \/ issue)
    BY EdgeFacts
  <1>x. ~(issue /\ drop)
    BY DEF IssueNow, DropNow
  <1>1. CASE first_done
    <2>1. /\ issues + drops >= 1 /\ first_at = WINDOW_LEN
          /\ fseq - sess = first_at + m * WINDOW_STRIDE + stride_cnt
      BY <1>1 DEF CreditInv, FramesInSession
    <2>2. (issue => StrideDue) /\ stride_cnt # CNT_MAX
      BY <1>1, <1>t, GeometryAssumption
      DEF IssueNow, FirstDue, RingInv, DebtBounded, CNT_MAX
    <2>3. issue \/ drop => stride_cnt >= WINDOW_STRIDE
      BY <2>2 DEF DropNow, StrideDue
    <2> HIDE DEF commit, issue, drop
    <2>4. m \in Nat /\ (m + 1) * WINDOW_STRIDE = m * WINDOW_STRIDE + WINDOW_STRIDE
          /\ m * WINDOW_STRIDE \in Nat
      <3>1. m \in Nat
        BY <1>t, <2>1
      <3>2. QED
        BY <3>1, OneMoreStride
    <2>5. first_at' = first_at /\ first_done'
      BY <1>1, <1>s, <1>e
    <2>6. fseq' - sess' = (IF commit THEN (fseq - sess) + 1 ELSE fseq - sess)
      BY <1>t, <1>e
    <2>7. CASE issue \/ drop
      <3>1. (issues' + drops') - 1 = m + 1 /\ issues' + drops' >= 1
        BY <2>7, <1>t, <1>s, <1>x, <2>4
      <3>2. stride_cnt' = (IF commit THEN stride_cnt + 1 ELSE stride_cnt) - WINDOW_STRIDE
        BY <1>1, <2>7, <1>t, <1>e, <2>2, GeometryAssumption DEF Credit
      <3>3. fseq' - sess' = first_at + (m + 1) * WINDOW_STRIDE + stride_cnt'
        <4> DEFINE P == m * WINDOW_STRIDE
                   Q == (m + 1) * WINDOW_STRIDE
        <4>1. Q = P + WINDOW_STRIDE /\ P \in Nat /\ fseq - sess = WINDOW_LEN + P + stride_cnt
          BY <2>1, <2>4
        <4> HIDE DEF P, Q
        <4>2. fseq' - sess' = WINDOW_LEN + Q + stride_cnt'
          BY <4>1, <2>3, <2>6, <2>7, <3>2, <1>t, GeometryAssumption
        <4>3. QED
          BY <4>2, <2>1 DEF Q
      <3>4. QED
        BY <3>1, <3>3, <2>1, <2>5 DEF CreditInv, FramesInSession
    <2>8. CASE ~issue /\ ~drop
      <3>1. issues' = issues /\ drops' = drops
        BY <2>8, <1>s
      <3>2. stride_cnt' = IF commit THEN stride_cnt + 1 ELSE stride_cnt
        BY <1>1, <2>8, <1>t, <1>e, <2>2 DEF Credit
      <3>3. fseq' - sess' = first_at + m * WINDOW_STRIDE + stride_cnt'
        <4> DEFINE P == m * WINDOW_STRIDE
        <4>1. P \in Nat /\ fseq - sess = WINDOW_LEN + P + stride_cnt
          BY <2>1, <2>4
        <4> HIDE DEF P
        <4>2. fseq' - sess' = WINDOW_LEN + P + stride_cnt'
          BY <4>1, <2>6, <3>2, <1>t, GeometryAssumption
        <4>3. QED
          BY <4>2, <2>1 DEF P
      <3>4. QED
        BY <3>1, <3>3, <2>1, <2>5 DEF CreditInv, FramesInSession
    <2>9. QED
      BY <2>7, <2>8
  <1>2. CASE ~first_done /\ issue
    <2>1. frames_total = WINDOW_LEN /\ FirstDue(frames_total) /\ ~StrideDue /\ ~drop
      BY <1>2 DEF IssueNow, DropNow, FirstDue, StrideDue
    <2>2. FramesInSession = WINDOW_LEN /\ issues = 0 /\ drops = 0 /\ pkt_q /\ stride_cnt = 0
      BY <1>2, <2>1 DEF FirstInv, ResetPace
    <2>3. ~commit
      BY <2>2 DEF GoodInputs
    <2> HIDE DEF commit, issue, drop
    <2>4. issues' = 1 /\ drops' = 0 /\ first_at' = WINDOW_LEN /\ stride_cnt' = 0
      BY <1>2, <2>1, <2>2, <2>3, <1>s, <1>e DEF Credit
    <2>5. FramesInSession' = WINDOW_LEN
      BY <2>2, <2>3, <1>e DEF FramesInSession
    <2>6. ((issues' + drops') - 1) * WINDOW_STRIDE = 0
      BY <2>4, GeometryAssumption
    <2>7. QED
      BY <2>4, <2>5, <2>6, GeometryAssumption DEF CreditInv
  <1>3. CASE ~first_done /\ ~issue
    BY <1>3, <1>e DEF CreditInv
  <1>4. QED
    BY <1>1, <1>2, <1>3 DEF TypeOK, SchedTypeOK

LEMMA CreditInit == Init => FirstInv /\ CreditInv
  BY GeometryAssumption
  DEF Init, FbufInit, SchedInit, ChainInit, FirstInv, CreditInv, ResetPace, FirstDue, Working,
      Smoothing, FramesInSession

LEMMA CreditInductive ==
  TypeOK /\ RingInv /\ FirstInv /\ CreditInv /\ [Next]_vars => FirstInv' /\ CreditInv'
  <1> SUFFICES ASSUME TypeOK, RingInv, FirstInv, CreditInv, [Next]_vars
               PROVE  FirstInv' /\ CreditInv'
    OBVIOUS
  <1>1. ASSUME NEW write \in BOOLEAN, NEW frame \in BOOLEAN,
               NEW cmd \in Commands \cup {"NONE"},
               Edge(write, frame, cmd), GoodInputs(frame, cmd)
        PROVE  FirstInv' /\ CreditInv'
    <2>1. TypeOK'
      BY <1>1, EdgeType
    <2>2. CASE ClrStream
      BY <1>1, <2>1, <2>2, CreditClear
    <2>3. CASE ~ClrStream
      BY <1>1, <2>1, <2>3, FirstStep, CreditStep
    <2>4. QED
      BY <2>2, <2>3
  <1>2. CASE UNCHANGED vars
    BY <1>2
    DEF vars, fbufVars, schedVars, chainVars, ctrlVars, histVars, FirstInv, CreditInv,
        ResetPace, FirstDue, Working, Smoothing, FramesInSession, Active, ChainActive
  <1>3. QED
    BY <1>1, <1>2, NextIsEdge

\* At any speed of the engines the strides issued and dropped, with the credit left,
\* account for every frame since the first window.
THEOREM CreditIsConserved == Spec => []CreditConserved
  <1>1. CreditInv => CreditConserved
    BY DEF CreditInv, CreditConserved
  <1>2. QED
    BY <1>1, CreditInit, CreditInductive, TypeCorrect, RingInvariant, PTL DEF Spec

-----------------------------------------------------------------------------
(* The schedule.                                                           *)

\* With nominal timing nothing is dropped, and the newest window of the session ends
\* with the frame its number says.
SchedInv ==
  /\ ClrStream => pkt_q
  /\ drops = 0
  /\ first_done => win_fn - sess = WINDOW_LEN + (issues - 1) * WINDOW_STRIDE

StepInv == RingInv /\ PaceInv /\ FirstInv /\ CreditInv

\* The frame the next window ends with.
NextEnd == WINDOW_LEN + issues * WINDOW_STRIDE

\* A window falls due just with that frame.
LEMMA DueAtTheEnd ==
  ASSUME TypeOK, StepInv, SchedInv
  PROVE  /\ Due <=> FramesInSession = NextEnd
         /\ FramesInSession <= NextEnd
         /\ Due => newest_fn = fseq
         /\ Due => (StrideDue <=> first_done)
  <1>t. /\ fseq \in Nat /\ sess \in Nat /\ sess <= fseq /\ frames_total \in 0 .. WINDOW_LEN
        /\ stride_cnt \in Nat /\ issues \in Nat
    BY DEF TypeOK, FbufTypeOK, SchedTypeOK, CtrlTypeOK, CNT_MAX
  <1>n. FramesInSession \in Nat
    BY <1>t DEF FramesInSession
  <1>s. stride_cnt <= WINDOW_STRIDE
    BY DEF StepInv, PaceInv, WorkPace
  <1>1. CASE first_done
    <2> DEFINE P == (issues - 1) * WINDOW_STRIDE
               Q == issues * WINDOW_STRIDE
    <2>1. issues >= 1 /\ FramesInSession = WINDOW_LEN + P + stride_cnt
      BY <1>1, <1>t DEF StepInv, CreditInv, SchedInv
    <2>2. Q = P + WINDOW_STRIDE /\ P \in Nat
      <3>1. issues - 1 \in Nat /\ (issues - 1) + 1 = issues
        BY <1>t, <2>1
      <3>2. QED
        BY <3>1, OneMoreStride
    <2>3. NextEnd = WINDOW_LEN + Q
      BY DEF NextEnd
    <2> HIDE DEF P, Q
    <2>4. Due <=> stride_cnt >= WINDOW_STRIDE
      BY <1>1 DEF Due, StrideDue, FirstDue
    <2>5. FramesInSession <= NextEnd /\ (Due <=> FramesInSession = NextEnd)
      BY <1>t, <1>s, <2>1, <2>2, <2>3, <2>4, GeometryAssumption
    <2>6. newest_fn = fseq
      BY <1>1, <1>n, GeometryAssumption DEF StepInv, RingInv, CountsAgree
    <2>7. QED
      BY <1>1, <2>5, <2>6 DEF Due, StrideDue, FirstDue
  <1>2. CASE ~first_done
    <2>1. FramesInSession = frames_total /\ issues = 0
      BY <1>2 DEF StepInv, FirstInv
    <2>2. NextEnd = WINDOW_LEN
      BY <2>1, OneMoreStride, GeometryAssumption DEF NextEnd
    <2>3. Due <=> frames_total = WINDOW_LEN
      BY <1>2 DEF Due, StrideDue, FirstDue
    <2>4. FramesInSession <= NextEnd
      BY <1>t, <2>1, <2>2
    <2>5. frames_total = WINDOW_LEN => newest_fn = fseq
      BY <1>n, <2>1, GeometryAssumption DEF StepInv, RingInv, CountsAgree
    <2>6. QED
      BY <1>2, <2>1, <2>2, <2>3, <2>4, <2>5 DEF StrideDue
  <1>3. QED
    BY <1>1, <1>2

\* One edge of the session's counters, as the schedule sees it.
LEMMA SchedFacts ==
  ASSUME TypeOK, TypeOK', StepInv, SchedInv,
         NEW write \in BOOLEAN, NEW frame \in BOOLEAN, NEW cmd,
         Edge(write, frame, cmd), GoodInputs(frame, cmd), ~ClrStream
  PROVE  /\ FramesInSession' = IF frame /\ stream_en THEN FramesInSession + 1 ELSE FramesInSession
         /\ issues' = IF Due THEN issues + 1 ELSE issues
         /\ drops' = drops /\ sess' = sess
         /\ first_done' = (first_done \/ Due)
         /\ win_fn' = IF Due THEN fseq ELSE win_fn
         /\ Due => stream_en /\ pkt_q
  <1>1. /\ IssueNow(stream_en, frames_total, EngineBusy) <=> Due
        /\ ~DropNow(EngineBusy)
    BY IssuesWhatIsDue DEF StepInv, PaceInv
  <1>2. /\ issues' = IF Due THEN issues + 1 ELSE issues
        /\ drops' = drops
    BY <1>1, SessionFacts DEF StepInv, FirstInv
  <1>3. /\ fseq' = IF frame /\ stream_en THEN fseq + 1 ELSE fseq
        /\ sess' = sess
        /\ first_done' = (first_done \/ Due)
        /\ Due => win_fn' = newest_fn
        /\ ~Due => win_fn' = win_fn
    BY <1>1, EdgeFacts
  <1>4. Due => newest_fn = fseq
    BY DueAtTheEnd
  <1>5. Due => stream_en /\ pkt_q
    BY DEF StepInv, PaceInv, DuePace
  <1>6. FramesInSession' = IF frame /\ stream_en THEN FramesInSession + 1 ELSE FramesInSession
    <2>1. fseq \in Nat /\ sess \in Nat
      BY DEF TypeOK, CtrlTypeOK
    <2>2. fseq' - sess' = IF frame /\ stream_en THEN (fseq - sess) + 1 ELSE fseq - sess
      BY <1>3, <2>1
    <2>3. QED
      BY <2>2 DEF FramesInSession
  <1>7. QED
    BY <1>2, <1>3, <1>4, <1>5, <1>6

LEMMA SchedStep ==
  ASSUME TypeOK, TypeOK', StepInv, SchedInv,
         NEW write \in BOOLEAN, NEW frame \in BOOLEAN, NEW cmd \in Commands \cup {"NONE"},
         Edge(write, frame, cmd), GoodInputs(frame, cmd)
  PROVE  SchedInv'
  <1>1. ClrStream' => pkt_q'
    BY DEF Edge, RegisterEdge, ClrStream, Commands
  <1>2. CASE ClrStream
    BY <1>1, <1>2 DEF Edge, HistoryEdge, SchedEdge, SchedInv
  <1>3. CASE ~ClrStream
    <2>1. drops' = 0
      BY <1>3, SchedFacts DEF SchedInv
    <2>2. CASE Due
      <3>1. issues \in Nat
        BY DEF TypeOK, CtrlTypeOK
      <3>2. issues' - 1 = issues /\ sess' = sess /\ win_fn' = fseq
        BY <1>3, <2>2, <3>1, SchedFacts
      <3>3. fseq - sess = WINDOW_LEN + issues * WINDOW_STRIDE
        BY <2>2, DueAtTheEnd DEF FramesInSession, NextEnd
      <3>4. win_fn' - sess' = WINDOW_LEN + (issues' - 1) * WINDOW_STRIDE
        BY <3>2, <3>3
      <3>5. QED
        BY <1>1, <2>1, <3>4 DEF SchedInv
    <2>3. CASE ~Due
      <3>1. issues' = issues /\ sess' = sess /\ win_fn' = win_fn /\ (first_done' <=> first_done)
        BY <1>3, <2>3, SchedFacts
      <3>2. QED
        BY <1>1, <2>1, <3>1 DEF SchedInv
    <2>4. QED
      BY <2>2, <2>3
  <1>4. QED
    BY <1>2, <1>3

\* Each edge is a step of the schedule, or none.
LEMMA EdgeIsScheduled ==
  ASSUME TypeOK, TypeOK', StepInv, SchedInv,
         NEW write \in BOOLEAN, NEW frame \in BOOLEAN, NEW cmd \in Commands \cup {"NONE"},
         Edge(write, frame, cmd), GoodInputs(frame, cmd)
  PROVE  [Schedule!Next]_(Schedule!vars)
  <1> DEFINE n == IF ClrStream THEN 0 ELSE FramesInSession
             k == IF ClrStream THEN 0 ELSE issues
             win == IF Fresh THEN 0 ELSE win_fn - sess
  <1>t. stream_en' \in BOOLEAN
    BY DEF TypeOK, CtrlTypeOK
  <1>1. CASE ClrStream \/ ClrStream'
    <2>1. n' = 0 /\ k' = 0 /\ win' = 0
      <3>1. CASE ClrStream'
        BY <3>1 DEF Fresh
      <3>2. CASE ClrStream
        <4>1. sess' = fseq' /\ issues' = 0 /\ first_done' = FALSE
          BY <3>2 DEF Edge, HistoryEdge, SchedEdge
        <4>2. fseq' - sess' = 0
          BY <4>1, SelfDifference DEF TypeOK, CtrlTypeOK
        <4>3. QED
          BY <4>1, <4>2 DEF Fresh, FramesInSession
      <3>3. QED
        BY <1>1, <3>1, <3>2
    <2>2. Schedule!NewSession
      BY <1>t, <2>1 DEF Schedule!NewSession
    <2>3. QED
      BY <2>2 DEF Schedule!Next
  <1>2. CASE ~ClrStream /\ ~ClrStream'
    <2>1. cmd \notin {"START", "RESET"}
      BY <1>2 DEF Edge, RegisterEdge, ClrStream
    <2>f. /\ FramesInSession' = IF frame /\ stream_en THEN FramesInSession + 1 ELSE FramesInSession
          /\ issues' = IF Due THEN issues + 1 ELSE issues
          /\ sess' = sess
          /\ first_done' = (first_done \/ Due)
          /\ win_fn' = IF Due THEN fseq ELSE win_fn
          /\ Due => stream_en /\ pkt_q
      BY <1>2, SchedFacts
    <2>g. /\ frame => ~pkt_q /\ cmd # "STOP"
          /\ cmd = "STOP" => ~pkt_q
      BY DEF GoodInputs, Commands
    <2>n. /\ n = FramesInSession /\ n' = FramesInSession' /\ k = issues /\ k' = issues'
      BY <1>2
    <2>w. ~Due => win' = win
      BY <1>2, <2>f DEF Fresh
    <2>e. /\ Due <=> n = WINDOW_LEN + k * WINDOW_STRIDE
          /\ n <= WINDOW_LEN + k * WINDOW_STRIDE
      BY <2>n, DueAtTheEnd DEF NextEnd
    <2>2. CASE cmd = "STOP"
      <3>1. ~Due /\ ~frame /\ stream_en' = FALSE
        BY <2>2, <2>f, <2>g DEF Edge, RegisterEdge
      <3>2. n' = n /\ k' = k /\ win' = win
        BY <3>1, <2>f, <2>n, <2>w
      <3>3. Schedule!Stop
        BY <3>1, <3>2 DEF Schedule!Stop
      <3>4. QED
        BY <3>3 DEF Schedule!Next
    <2>3. CASE cmd # "STOP"
      <3>1. stream_en' = stream_en
        BY <2>1, <2>3 DEF Edge, RegisterEdge, TypeOK, CtrlTypeOK
      <3>2. CASE Due
        <4>1. ~frame /\ stream_en
          BY <3>2, <2>f, <2>g
        <4>2. n' = n /\ k' = k + 1
          BY <3>2, <4>1, <2>f, <2>n
        <4>3. win' = n
          BY <1>2, <3>2, <2>f, <2>n DEF Fresh, FramesInSession
        <4>4. Schedule!Issue
          BY <3>1, <3>2, <4>1, <4>2, <4>3, <2>e DEF Schedule!Issue, Schedule!DueAt
        <4>5. QED
          BY <4>4 DEF Schedule!Next
      <3>3. CASE ~Due /\ frame /\ stream_en
        <4>1. n' = n + 1 /\ k' = k /\ win' = win
          BY <3>3, <2>f, <2>n, <2>w
        <4>2. n < WINDOW_LEN + k * WINDOW_STRIDE
          <5>1. n \in Nat /\ k \in Nat
            BY <2>n DEF FramesInSession, TypeOK, CtrlTypeOK
          <5> DEFINE e == WINDOW_LEN + k * WINDOW_STRIDE
          <5>2. e \in Nat
            BY <5>1, OneMoreStride, GeometryAssumption
          <5>3. n <= e /\ n # e
            BY <3>3, <2>e
          <5> HIDE DEF n, e
          <5>4. n < e
            BY <5>1, <5>2, <5>3
          <5>5. QED
            BY <5>4 DEF e
        <4>3. Schedule!Frame
          BY <3>1, <3>3, <4>1, <4>2 DEF Schedule!Frame, Schedule!DueAt
        <4>4. QED
          BY <4>3 DEF Schedule!Next
      <3>4. CASE ~Due /\ ~(frame /\ stream_en)
        <4>1. n' = n /\ k' = k /\ win' = win
          BY <3>4, <2>f, <2>n, <2>w
        <4>2. UNCHANGED Schedule!vars
          BY <3>1, <4>1 DEF Schedule!vars
        <4>3. QED
          BY <4>2
      <3>5. QED
        BY <3>2, <3>3, <3>4
    <2>4. QED
      BY <2>2, <2>3
  <1>3. QED
    BY <1>1, <1>2

\* With nominal timing the streaming path keeps the schedule: window k of a session is
\* issued after its frame WINDOW_LEN + k * WINDOW_STRIDE and before the next one, and
\* is made of the frames up to it.  (That it is issued is the liveness half, which
\* the runs check.)
THEOREM PathKeepsSchedule == NominalTiming => (Spec => Schedule!Spec)
  <1> SUFFICES ASSUME NominalTiming PROVE Spec => Schedule!Spec
    OBVIOUS
  <1>1. Init => SchedInv /\ Schedule!Init
    BY SelfDifference DEF Init, SchedInit, SchedInv, ClrStream, Fresh, FramesInSession, Schedule!Init
  <1>2. TypeOK /\ StepInv /\ SchedInv /\ [Next]_vars
          => SchedInv' /\ [Schedule!Next]_(Schedule!vars)
    <2> SUFFICES ASSUME TypeOK, StepInv, SchedInv, [Next]_vars
                 PROVE  SchedInv' /\ [Schedule!Next]_(Schedule!vars)
      OBVIOUS
    <2>1. ASSUME NEW write \in BOOLEAN, NEW frame \in BOOLEAN,
                 NEW cmd \in Commands \cup {"NONE"},
                 Edge(write, frame, cmd), GoodInputs(frame, cmd)
          PROVE  SchedInv' /\ [Schedule!Next]_(Schedule!vars)
      BY <2>1, EdgeType, SchedStep, EdgeIsScheduled
    <2>2. CASE UNCHANGED vars
      BY <2>2
      DEF vars, fbufVars, schedVars, chainVars, ctrlVars, histVars, SchedInv, ClrStream,
          Fresh, FramesInSession, Schedule!vars
    <2>3. QED
      BY <2>1, <2>2, NextIsEdge
  <1>3. TypeOK /\ RingInv /\ PaceInv /\ [Next]_vars => PaceInv'
    BY PaceInductive
  <1>4. RingInv /\ PaceInv /\ FirstInv /\ CreditInv => StepInv
    BY DEF StepInv
  <1>5. QED
    BY <1>1, <1>2, <1>3, <1>4, PaceInit, CreditInit, CreditInductive, TypeCorrect,
       RingInvariant, PTL
    DEF Spec, Schedule!Spec
=============================================================================
