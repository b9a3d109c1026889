------------------------- MODULE TemporalSmoothing -------------------------
(***************************************************************************)
(* rtl/temporal_smoothing.sv with its rtl/confidence_accumulator.sv, one   *)
(* step per clock edge.  The accumulator keeps the last DEPTH logit        *)
(* vectors in a RAM and their sums in registers, and folds a new vector in *)
(* class by class; then the smoother scans the averages for the best class *)
(* and decides.  The RAM's write port is registered and its read takes a   *)
(* cycle.  en_i is 1 and clear_i is 0, as kws_core ties or resets them; a  *)
(* clear is a reset of the engines.                                        *)
(***************************************************************************)
EXTENDS KwsMath, FiniteSets, Sequences

CONSTANTS
  N,            \* NUM_CLASSES                                 (10)
  DATA_W,       \* width of a logit                            (8)
  DEPTH,        \* SMOOTH_DEPTH                                (4)
  SUM_W,        \* width of a sum: DATA_W + log2(DEPTH)        (10)
  THRESH,       \* CONF_THRESH                                 (30)
  VOTE_MIN,     \* VOTE_MIN                                    (2)
  MIN_CONSEC,   \* MIN_CONSEC                                  (2)
  DEBOUNCE,     \* DEBOUNCE_INFER                              (12)
  TARGETS,      \* the classes of TARGET_MASK                  (2 .. 9)
  MAX_RUN,      \* the largest value of consec_q               (15)
  LOGITS        \* the logit vectors the classifier may produce

Classes == 0 .. N - 1
HIST_D == DEPTH * N

ASSUME SmoothingAssumption ==
  /\ N \in Nat /\ N > 1 /\ DATA_W \in Nat \ {0} /\ SUM_W \in DATA_W .. 16
  \* A sum has room for DEPTH logits, and fits the host's int16_t.
  /\ DEPTH * 2^(DATA_W - 1) <= 2^(SUM_W - 1)
  /\ DEPTH \in 1 .. 15 /\ THRESH \in Int /\ VOTE_MIN \in 0 .. 15
  /\ MAX_RUN \in Nat \ {0} /\ MIN_CONSEC \in 0 .. MAX_RUN /\ DEBOUNCE \in Nat
  /\ TARGETS \subseteq Classes
ASSUME LogitsAssumption ==
  LOGITS \subseteq [Classes -> -(2^(DATA_W - 1)) .. 2^(DATA_W - 1) - 1]

VARIABLES
  acc, acc_c, head,      \* accumulator: state_q, c_q, head_q
  clr_addr, logits,      \* clr_addr_q, logits_q
  sum,                   \* sum_q
  hist,                  \* the history RAM
  hist_wr, hist_raddr,   \* its registered ports: hist_we with address and data
  hist_rdata,
  win_hist, hist_fill, whead,        \* the history of winners
  phase, pend, acc_busy_d,
  scan_c, sm_idx, sm_val,            \* the scan for the best average
  consec, debounce, last_cand,
  detect                 \* detect_o with det_class_o, det_conf_o, det_votes_o

accVars == <<acc, acc_c, head, clr_addr, logits, sum, hist_wr, hist_raddr>>
ramVars == <<hist, hist_rdata>>
voteVars == <<win_hist, hist_fill, whead>>
phaseVars == <<phase, pend, acc_busy_d, scan_c, sm_idx, sm_val, consec, debounce, last_cand, detect>>
smoothVars == <<accVars, ramVars, voteVars, phaseVars>>

Zeroes == [c \in Classes |-> 0]
NoWrite == <<>>
NoDetection == <<>>

AccReset(a, ac, h, ca, l, s, hw, hr) ==
  /\ a = "CLR" /\ ac = 0 /\ h = 0 /\ ca = 0 /\ l = Zeroes /\ s = Zeroes
  /\ hw = NoWrite /\ hr = 0

VoteReset(w, f, h) == w = [d \in 0 .. DEPTH - 1 |-> 0] /\ f = 0 /\ h = 0

PhaseReset(p, pe, bd, sc, si, sv, co, db, lc, dt) ==
  /\ p = "IDLE" /\ pe = FALSE /\ bd = FALSE /\ sc = 0 /\ si = 0 /\ sv = 0
  /\ co = 0 /\ db = 0 /\ lc = 0 /\ dt = NoDetection

\* The RAM holds anything at power-on; nothing resets it.
SmoothInit ==
  /\ AccReset(acc, acc_c, head, clr_addr, logits, sum, hist_wr, hist_raddr)
  /\ \E l \in LOGITS : hist = [a \in 0 .. HIST_D - 1 |-> l[a % N]]
  /\ hist_rdata = 0
  /\ VoteReset(win_hist, hist_fill, whead)
  /\ PhaseReset(phase, pend, acc_busy_d, scan_c, sm_idx, sm_val, consec, debounce, last_cand, detect)

-----------------------------------------------------------------------------
(* confidence_accumulator. *)

AccBusy == acc # "IDLE"
FoldAddr == head * N + acc_c
Avg(c) == Signed(Average(sum[c], DEPTH), DATA_W)

RamEdge ==
  /\ hist' = IF hist_wr = NoWrite THEN hist ELSE [hist EXCEPT ![hist_wr[1]] = hist_wr[2]]
  /\ hist_rdata' = hist[hist_raddr]

AccIdle(update, l) ==
  /\ acc = "IDLE"
  /\ IF update THEN acc' = "RD" /\ acc_c' = 0 /\ logits' = l ELSE UNCHANGED <<acc, acc_c, logits>>
  /\ hist_wr' = NoWrite
  /\ UNCHANGED <<head, clr_addr, sum, hist_raddr>>

\* After a reset the RAM is zeroed, a word a cycle.
AccClr ==
  /\ acc = "CLR"
  /\ hist_wr' = <<clr_addr, 0>>
  /\ \/ clr_addr = HIST_D - 1 /\ acc' = "IDLE" /\ UNCHANGED clr_addr
     \/ clr_addr < HIST_D - 1 /\ clr_addr' = clr_addr + 1 /\ UNCHANGED acc
  /\ UNCHANGED <<acc_c, head, logits, sum, hist_raddr>>

\* Mutant: one cycle for the read.
AccRdFast ==
  /\ acc = "RD"
  /\ hist_raddr' = FoldAddr /\ acc' = "UPD"
  /\ hist_wr' = NoWrite
  /\ UNCHANGED <<acc_c, head, clr_addr, logits, sum>>

AccRd ==
  /\ acc = "RD"
  /\ hist_raddr' = FoldAddr /\ acc' = "WAIT"
  /\ hist_wr' = NoWrite
  /\ UNCHANGED <<acc_c, head, clr_addr, logits, sum>>

AccWait ==
  /\ acc = "WAIT" /\ acc' = "UPD"
  /\ hist_wr' = NoWrite
  /\ UNCHANGED <<acc_c, head, clr_addr, logits, sum, hist_raddr>>

AccUpd ==
  /\ acc = "UPD"
  /\ sum' = [sum EXCEPT ![acc_c] = Signed(@ + logits[acc_c] - hist_rdata, SUM_W)]
  /\ hist_wr' = <<FoldAddr, logits[acc_c]>>
  /\ \/ acc_c = N - 1 /\ acc' = "IDLE" /\ head' = (head + 1) % DEPTH /\ UNCHANGED acc_c
     \/ acc_c < N - 1 /\ acc' = "RD" /\ acc_c' = acc_c + 1 /\ UNCHANGED head
  /\ UNCHANGED <<clr_addr, logits, hist_raddr>>

AccEdge(update, l) == AccIdle(update, l) \/ AccClr \/ AccRd \/ AccWait \/ AccUpd

-----------------------------------------------------------------------------
(* temporal_smoothing. *)

Busy == AccBusy \/ pend \/ phase # "IDLE"

VoteEdge(update, winner) ==
  IF update
    THEN /\ win_hist' = [win_hist EXCEPT ![whead] = winner]
         /\ whead' = (whead + 1) % DEPTH
         /\ hist_fill' = IF hist_fill # DEPTH THEN hist_fill + 1 ELSE hist_fill
    ELSE UNCHANGED voteVars

Votes == Cardinality({d \in 0 .. DEPTH - 1 : d < hist_fill /\ win_hist[d] = sm_idx})

\* Mutant: the threshold itself does not qualify.
CandidateStrict == sm_idx \in TARGETS /\ sm_val > THRESH /\ Votes >= VOTE_MIN

Candidate == sm_idx \in TARGETS /\ sm_val >= THRESH /\ Votes >= VOTE_MIN

\* Mutant: a change of class does not break a run.
RunAnyClass ==
  IF ~Candidate THEN 0
  ELSE IF consec # 0 THEN IF consec = MAX_RUN THEN consec ELSE consec + 1
  ELSE 1

Run ==
  IF ~Candidate THEN 0
  ELSE IF consec # 0 /\ last_cand = sm_idx THEN IF consec = MAX_RUN THEN consec ELSE consec + 1
  ELSE 1

Fire == Candidate /\ debounce = 0 /\ Run >= MIN_CONSEC

Wait(update) ==
  /\ phase = "IDLE"
  /\ IF pend /\ acc_busy_d /\ ~AccBusy
       THEN /\ sm_idx' = 0 /\ sm_val' = Avg(0) /\ scan_c' = 1
            /\ pend' = FALSE /\ phase' = "SCAN"
       ELSE pend' = (pend \/ update) /\ UNCHANGED <<sm_idx, sm_val, scan_c, phase>>
  /\ detect' = NoDetection /\ UNCHANGED <<consec, debounce, last_cand>>

Scan(update) ==
  /\ phase = "SCAN"
  /\ IF Avg(scan_c) > sm_val
       THEN sm_val' = Avg(scan_c) /\ sm_idx' = scan_c
       ELSE UNCHANGED <<sm_val, sm_idx>>
  /\ \/ scan_c = N - 1 /\ phase' = "EVAL" /\ UNCHANGED scan_c
     \/ scan_c < N - 1 /\ scan_c' = scan_c + 1 /\ UNCHANGED phase
  /\ pend' = (pend \/ update)
  /\ detect' = NoDetection /\ UNCHANGED <<consec, debounce, last_cand>>

Detection == <<[class |-> sm_idx, conf |-> IF sm_val < 0 THEN 0 ELSE sm_val, votes |-> Votes]>>

Eval(update) ==
  /\ phase = "EVAL" /\ phase' = "IDLE"
  /\ last_cand' = IF Candidate THEN sm_idx ELSE last_cand
  /\ IF Fire
       THEN detect' = Detection /\ debounce' = DEBOUNCE /\ consec' = 0
       ELSE /\ detect' = NoDetection /\ consec' = Run
            /\ debounce' = IF debounce # 0 THEN debounce - 1 ELSE 0
  /\ pend' = (pend \/ update)
  /\ UNCHANGED <<scan_c, sm_idx, sm_val>>

PhaseEdge(update) ==
  /\ acc_busy_d' = AccBusy
  /\ Wait(update) \/ Scan(update) \/ Eval(update)

-----------------------------------------------------------------------------
Edge(update, l) ==
  /\ RamEdge
  /\ AccEdge(update, l)
  /\ VoteEdge(update, Argmax(l))
  /\ PhaseEdge(update)

\* An edge without an update.
Tick == Edge(FALSE, Zeroes)

\* The classifier's result of a window.  A window is issued only when nothing is
\* busy (StreamCore), so it never finds the smoother at work.
Update(l) == ~Busy /\ Edge(TRUE, l)

\* rst_eng_n: the edge that raises the engine reset; the RAM still sees a write
\* that was on its way.
Reset ==
  /\ RamEdge
  /\ AccReset(acc', acc_c', head', clr_addr', logits', sum', hist_wr', hist_raddr')
  /\ VoteReset(win_hist', hist_fill', whead')
  /\ PhaseReset(phase', pend', acc_busy_d', scan_c', sm_idx', sm_val', consec', debounce', last_cand', detect')

SmoothNext == Tick \/ Reset \/ \E l \in LOGITS : Update(l)

SmoothSpec == SmoothInit /\ [][SmoothNext]_smoothVars
=============================================================================
