--------------------------- MODULE SmoothingPair ---------------------------
(***************************************************************************)
(* The smoother of the device and the reference of the host on the same    *)
(* inference results, side by side as tb/tb_smoothing.cpp runs them: the   *)
(* reference takes its step when the device decides, and starts afresh     *)
(* when the device is reset.  recent and calm are history: what was fed in *)
(* since the last reset, and how long no detection has been made.          *)
(***************************************************************************)
EXTENDS TemporalSmoothing, FiniteSetsExt

VARIABLES ref, evt, recent, calm

Host == INSTANCE HostSmoother

pairVars == <<smoothVars, ref, evt, recent, calm>>

\* What can still matter to a decision.
RECENT_MAX == DEPTH + Max({MIN_CONSEC, 1}) - 1
CALM_MAX == Max({DEBOUNCE, MIN_CONSEC})

PairInit ==
  /\ SmoothInit
  /\ ref = Host!RefState0 /\ evt = <<>>
  /\ recent = <<>> /\ calm = CALM_MAX

Deciding == phase = "EVAL"

\* The history of a cycle that is no reset; v is what it feeds in, if anything.
Decide ==
  IF Deciding
    THEN /\ Host!kws_smooth_step(recent[1], Argmax(recent[1]))
         /\ calm' = IF Fire THEN 0 ELSE Min({calm + 1, CALM_MAX})
    ELSE UNCHANGED <<ref, evt, calm>>

PairTick == Tick /\ Decide /\ UNCHANGED recent

PairUpdate(l) ==
  /\ Update(l) /\ Decide
  /\ recent' = SubSeq(<<l>> \o recent, 1, Min({Len(recent) + 1, RECENT_MAX}))

PairReset ==
  /\ Reset /\ Host!kws_smooth_init
  /\ recent' = <<>> /\ calm' = CALM_MAX

PairNext == PairTick \/ PairReset \/ \E l \in LOGITS : PairUpdate(l)

PairSpec == PairInit /\ [][PairNext]_pairVars

-----------------------------------------------------------------------------
\* The registers keep their ranges.
TypeOK ==
  /\ acc \in {"IDLE", "CLR", "RD", "WAIT", "UPD"} /\ acc_c \in Classes
  /\ head \in 0 .. DEPTH - 1 /\ clr_addr \in 0 .. HIST_D - 1
  /\ sum \in [Classes -> -(2^(SUM_W - 1)) .. 2^(SUM_W - 1) - 1]
  /\ hist_wr = NoWrite \/ hist_wr[1] \in 0 .. HIST_D - 1
  /\ hist_raddr \in 0 .. HIST_D - 1
  /\ win_hist \in [0 .. DEPTH - 1 -> Classes]
  /\ hist_fill \in 0 .. DEPTH /\ whead \in 0 .. DEPTH - 1
  /\ phase \in {"IDLE", "SCAN", "EVAL"} /\ pend \in BOOLEAN /\ acc_busy_d \in BOOLEAN
  /\ scan_c \in Classes /\ sm_idx \in Classes /\ last_cand \in Classes
  /\ consec \in 0 .. MAX_RUN /\ debounce \in 0 .. DEBOUNCE

\* The DEPTH results up to the one j before the newest, newest first; fewer
\* after a reset.
Window(j) == SubSeq(recent, j + 1, Min({Len(recent), j + DEPTH}))

\* The sum of class c over the results w, by sums of the first of them.
SumOver(w, c) ==
  LET first[k \in 0 .. Len(w)] == IF k = 0 THEN 0 ELSE first[k - 1] + w[k][c]
  IN  first[Len(w)]
MeanOver(w) == [c \in Classes |-> SumOver(w, c) \div DEPTH]

\* When the smoother decides, each sum is that of the last DEPTH results and of
\* nothing else: no result is counted twice or missed by the pipelined access to
\* the RAM, no sum overflows its width, and nothing survives a reset that found a fold
\* or a write under way.
SumsOfRecent ==
  /\ TypeOK
  /\ Deciding => \A c \in Classes : sum[c] = SumOver(Window(0), c)

\* Conditions 1 to 4 of the module's header for the result j before the newest.
Winner(j) == Argmax(MeanOver(Window(j)))
Support(j) == Cardinality({i \in DOMAIN Window(j) : Argmax(Window(j)[i]) = Winner(j)})
Holds(j) ==
  /\ Winner(j) \in TARGETS
  /\ MeanOver(Window(j))[Winner(j)] >= THRESH
  /\ Support(j) >= VOTE_MIN

\* The header of temporal_smoothing.sv, told from the results alone: it detects
\* exactly when conditions 1 to 4 have held for the last MIN_CONSEC results with
\* one winner, none of which was a detection, and DEBOUNCE results have passed
\* since the last detection.
DetectsExactly ==
  Deciding =>
    (Fire <=> /\ Len(recent) >= Max({MIN_CONSEC, 1})
              /\ Holds(0)
              /\ \A j \in 0 .. MIN_CONSEC - 1 : Holds(j) /\ Winner(j) = Winner(0)
              /\ calm >= DEBOUNCE /\ calm >= MIN_CONSEC - 1)

\* ref_model.c calls its smoother a mirror of the module: each decision of the
\* device is that of the reference, with class, confidence and votes, and they
\* agree afterwards on all that later decisions depend on.
MirrorsReference ==
  [][Deciding /\ recent' # <<>> =>
       /\ detect' = evt'
       /\ consec' = ref'.consec /\ debounce' = ref'.debounce_cnt
       /\ consec' # 0 => last_cand' = ref'.last_cand]_pairVars

-----------------------------------------------------------------------------
(* Values for TLC: three classes, of which 1 and 2 are targets. *)

Vector(a, b, c) == [k \in 0 .. 2 |-> <<a, b, c>>[k + 1]]

\* Extremes of three bits, a tie, a winner that is no target.
MCLogits ==
  {Vector(-4, -4, -4), Vector(0, 3, -4), Vector(0, -1, 3), Vector(3, 2, 2), Vector(-1, 2, 2)}
MCTargets == {1, 2}
=============================================================================
