----------------------- MODULE SmoothingPair_proofs -----------------------
(***************************************************************************)
(* Proofs about SmoothingPair.  MirrorInv says what the device has done of *)
(* a result at every step of its fold through the RAM, in terms of the     *)
(* state the reference will have when it takes the result; that state      *)
(* knows the last DEPTH results and nothing else.  RunInv says what the    *)
(* run length and the debounce count mean for the results themselves.      *)
(* From the two follow SumsOfRecent, MirrorsReference and DetectsExactly.  *)
(***************************************************************************)
EXTENDS SmoothingPair, SequenceTheorems, FiniteSetTheorems, TLAPS

-----------------------------------------------------------------------------
(* Types. *)

\* Logits, and what DEPTH of them can add up to.
Lo == -(2^(DATA_W - 1))
Hi == 2^(DATA_W - 1) - 1
Logit == Lo .. Hi
Results == [Classes -> Logit]
SumRange == DEPTH * Lo .. DEPTH * Hi

Slots == 0 .. DEPTH - 1
HostStates ==
  [sums : [Classes -> SumRange], hist : [Slots -> Results], head : Slots,
   win_hist : [Slots -> Classes], whead : Slots, fill : 0 .. DEPTH,
   consec : 0 .. MAX_RUN, last_cand : Classes \cup {-1}, debounce_cnt : 0 .. DEBOUNCE]

Addresses == 0 .. HIST_D - 1

AccTypes ==
  /\ acc \in {"IDLE", "CLR", "RD", "WAIT", "UPD"} /\ acc_c \in Classes
  /\ head \in Slots /\ clr_addr \in Addresses
  /\ logits \in Results /\ sum \in [Classes -> SumRange]
  /\ hist_wr # NoWrite => \E a \in Addresses, v \in Logit : hist_wr = <<a, v>>
  /\ hist_raddr \in Addresses
RamTypes == hist \in [Addresses -> Logit] /\ hist_rdata \in Logit
VoteTypes == win_hist \in [Slots -> Classes] /\ hist_fill \in 0 .. DEPTH /\ whead \in Slots
PhaseTypes ==
  /\ phase \in {"IDLE", "SCAN", "EVAL"} /\ pend \in BOOLEAN /\ acc_busy_d \in BOOLEAN
  /\ scan_c \in Classes /\ sm_idx \in Classes /\ sm_val \in Logit /\ last_cand \in Classes
  /\ consec \in 0 .. MAX_RUN /\ debounce \in 0 .. DEBOUNCE
PairTypes ==
  /\ recent \in Seq(Results) /\ Len(recent) <= RECENT_MAX /\ calm \in 0 .. CALM_MAX
  /\ ref \in HostStates
Types == AccTypes /\ RamTypes /\ VoteTypes /\ PhaseTypes /\ PairTypes

-----------------------------------------------------------------------------
(* The fold. *)

\* A result is fed in and not decided.
Pending == pend \/ phase # "IDLE"
Folding == acc \in {"RD", "WAIT", "UPD"}

Control ==
  /\ acc = "CLR" \/ Folding => phase = "IDLE"
  /\ phase # "IDLE" => ~pend
  /\ Folding => pend /\ logits = recent[1]
  /\ acc = "CLR" => ~pend /\ recent = <<>> /\ ref = Host!RefState0 /\ sum = Zeroes /\ head = 0
  /\ Pending => recent # <<>>
  /\ acc \in {"WAIT", "UPD"} => hist_wr = NoWrite

\* The reference as it will be when it has taken the result.
Target == IF Pending THEN Host!Folded(ref, recent[1], Argmax(recent[1])) ELSE ref

\* The memory when the write on its way is done.
Ram == IF hist_wr = NoWrite THEN hist ELSE [hist EXCEPT ![hist_wr[1]] = hist_wr[2]]

\* A sum of the reference when it has taken the result.
Moved(k) == ref.sums[k] + recent[1][k] - ref.hist[ref.head][k]

FoldInv ==
  /\ win_hist = Target.win_hist /\ hist_fill = Target.fill /\ whead = Target.whead
  /\ Pending => \A k \in Classes : Moved(k) \in SumRange
  /\ acc = "CLR" => \A a \in Addresses : a < clr_addr => Ram[a] = 0
  /\ acc = "IDLE" =>
       /\ head = Target.head /\ sum = Target.sums
       /\ \A d \in Slots, k \in Classes : Ram[d * N + k] = Target.hist[d][k]
  /\ Folding =>
       /\ head = ref.head
       /\ \A k \in Classes : sum[k] = IF k < acc_c THEN Target.sums[k] ELSE ref.sums[k]
       /\ \A d \in Slots, k \in Classes :
            Ram[d * N + k] = IF d = head /\ k < acc_c THEN logits[k] ELSE ref.hist[d][k]
  /\ acc = "WAIT" => hist_raddr = FoldAddr
  /\ acc = "UPD" => hist_rdata = ref.hist[head][acc_c]

-----------------------------------------------------------------------------
(* The reference and the results. *)

\* Where the i-th last result is when the next goes to slot h.
Slot(h, i) == IF i <= h THEN h - i ELSE (h - i) + DEPTH

Lesser(a, b) == IF a < b THEN a ELSE b

\* The smoother state t knows the results r.
Knows(t, r) ==
  /\ t.fill = Lesser(Len(r), DEPTH) /\ t.whead = t.head /\ (t.fill < DEPTH => t.head = t.fill)
  /\ \A i \in 1 .. t.fill : t.hist[Slot(t.head, i)] = r[i] /\ t.win_hist[Slot(t.head, i)] = Argmax(r[i])
  /\ \A d \in t.fill .. DEPTH - 1 : t.hist[d] = Zeroes
  /\ \A k \in Classes : t.sums[k] = SumOver(SubSeq(r, 1, t.fill), k)

-----------------------------------------------------------------------------
(* The decision. *)

Mean(k) == sum[k] \div DEPTH

\* The best of the first n averages, the lowest when there are several.
Leads(n) ==
  /\ sm_idx \in 0 .. n - 1 /\ sm_val = Mean(sm_idx)
  /\ \A j \in 0 .. n - 1 : Mean(j) <= sm_val /\ (j < sm_idx => Mean(j) < sm_val)

DecisionInv ==
  /\ consec = ref.consec /\ debounce = ref.debounce_cnt /\ (consec # 0 => last_cand = ref.last_cand)
  /\ phase = "SCAN" => scan_c \in 1 .. N - 1 /\ Leads(scan_c)
  /\ phase = "EVAL" => Leads(N)

\* The results decided, counted from the one o before the newest: what a run of length c says of them.
RunOf(c, o) ==
  /\ Len(recent) >= Lesser(c + o, MIN_CONSEC)
  /\ \A j \in o .. Lesser(c + o, MIN_CONSEC) - 1 : Holds(j) /\ Winner(j) = last_cand
  /\ c + o < MIN_CONSEC =>
       \/ Len(recent) = c + o
       \/ calm = c
       \/ ~(Holds(c + o) /\ (c = 0 \/ Winner(c + o) = last_cand))

RunInv ==
  /\ RunOf(consec, IF Pending THEN 1 ELSE 0)
  /\ debounce = IF calm < DEBOUNCE THEN DEBOUNCE - calm ELSE 0
  /\ calm >= Lesser(consec, CALM_MAX)

MirrorInv == Types /\ Control /\ FoldInv /\ Knows(Target, recent) /\ DecisionInv
SmoothInv == MirrorInv /\ RunInv

-----------------------------------------------------------------------------
(* Arithmetic. *)

\* Induction to a bound, on a set of numbers.
LEMMA Induct ==
  ASSUME NEW S, NEW n \in Nat, 0 \in S, \A k \in 0 .. n - 1 : k \in S => k + 1 \in S
  PROVE  0 .. n \subseteq S
<1> DEFINE B == {k \in 0 .. n : k \notin S}
<1> SUFFICES ASSUME B # {} PROVE FALSE
  OBVIOUS
<1>1. B \subseteq Nat
  OBVIOUS
<1>2. PICK m \in B : \A y \in B : ~(<<y, m>> \in OpToRel(<, Nat))
  BY <1>1, NatLessThanWellFounded, WFMin
<1>3. m \in 0 .. n /\ m \notin S
  OBVIOUS
<1>4. m # 0
  BY <1>3
<1>5. m - 1 \in 0 .. n - 1 /\ m - 1 \in 0 .. n /\ (m - 1) + 1 = m
  BY <1>3, <1>4
<1>6. m - 1 \notin S
  BY <1>3, <1>5
<1>7. m - 1 \in B
  BY <1>5, <1>6
<1>8. <<m - 1, m>> \in OpToRel(<, Nat)
  BY <1>3, <1>5 DEF OpToRel
<1> QED
  BY <1>2, <1>7, <1>8

\* Powers of two, as far as a word goes.
LEMMA Powers ==
  \A w \in 0 .. 15 : 2^w \in Nat \ {0} /\ 2^(w + 1) = 2 * 2^w /\ 2^w <= 2^15
<1>1. \A w \in 0 .. 15 : w = 0 \/ w = 1 \/ w = 2 \/ w = 3 \/ w = 4 \/ w = 5 \/ w = 6 \/ w = 7 \/ w = 8 \/ w = 9
                         \/ w = 10 \/ w = 11 \/ w = 12 \/ w = 13 \/ w = 14 \/ w = 15
  OBVIOUS
<1>2. /\ 2^0 = 1 /\ 2^1 = 2 /\ 2^2 = 4 /\ 2^3 = 8 /\ 2^4 = 16 /\ 2^5 = 32 /\ 2^6 = 64 /\ 2^7 = 128 /\ 2^8 = 256
      /\ 2^9 = 512 /\ 2^10 = 1024 /\ 2^11 = 2048 /\ 2^12 = 4096 /\ 2^13 = 8192 /\ 2^14 = 16384 /\ 2^15 = 32768
      /\ 2^16 = 65536
  OBVIOUS
<1>3. ASSUME NEW w \in 0 .. 15 PROVE 2^w \in Nat \ {0} /\ 2^(w + 1) = 2 * 2^w /\ 2^w <= 2^15
  <2>1. w + 1 \in 1 .. 16
    OBVIOUS
  <2>2. CASE w = 0
    BY <1>2, <2>2
  <2>3. CASE w = 1
    BY <1>2, <2>3
  <2>4. CASE w = 2
    BY <1>2, <2>4
  <2>5. CASE w = 3
    BY <1>2, <2>5
  <2>6. CASE w = 4
    BY <1>2, <2>6
  <2>7. CASE w = 5
    BY <1>2, <2>7
  <2>8. CASE w = 6
    BY <1>2, <2>8
  <2>9. CASE w = 7
    BY <1>2, <2>9
  <2>10. CASE w = 8
    BY <1>2, <2>10
  <2>11. CASE w = 9
    BY <1>2, <2>11
  <2>12. CASE w = 10
    BY <1>2, <2>12
  <2>13. CASE w = 11
    BY <1>2, <2>13
  <2>14. CASE w = 12
    BY <1>2, <2>14
  <2>15. CASE w = 13
    BY <1>2, <2>15
  <2>16. CASE w = 14
    BY <1>2, <2>16
  <2>17. CASE w = 15
    BY <1>2, <2>17
  <2> QED
    BY <1>1, <2>2, <2>3, <2>4, <2>5, <2>6, <2>7, <2>8, <2>9, <2>10, <2>11, <2>12, <2>13, <2>14, <2>15, <2>16, <2>17
<1> QED
  BY <1>3, Zenon

\* A number in range is kept by its conversion.
LEMMA SignedIs ==
  ASSUME NEW w \in 1 .. 16, NEW x \in Int, -(2^(w - 1)) <= x, x < 2^(w - 1)
  PROVE  Signed(x, w) = x
<1>1. PICK h : h = 2^(w - 1)
  OBVIOUS
<1>2. w - 1 \in 0 .. 15 /\ (w - 1) + 1 = w
  OBVIOUS
<1>3. h \in Nat \ {0} /\ 2^w = 2 * h
  <2>1. PICK v : v = w - 1
    OBVIOUS
  <2>2. v \in 0 .. 15 /\ v + 1 = w
    BY <1>2, <2>1
  <2>3. 2^v \in Nat \ {0} /\ 2^(v + 1) = 2 * 2^v
    BY <2>2, Powers, Zenon
  <2>4. 2^(v + 1) = 2^w
    BY <2>2
  <2>5. 2^v = h
    BY <1>1, <2>1
  <2> QED
    BY <2>3, <2>4, <2>5
<1>4. (x + h) % (2 * h) = x + h
  <2>1. x + h \in 0 .. 2 * h - 1 /\ 2 * h \in Nat \ {0}
    BY <1>1, <1>3
  <2> QED
    BY <2>1
<1> QED
  BY <1>1, <1>3, <1>4 DEF Signed

\* The ranges are those of the code.
LEMMA Ranges ==
  /\ Lo \in Int /\ Hi \in Int /\ Lo < 0 /\ 0 <= Hi /\ Hi = -Lo - 1
  /\ \A x \in SumRange : x \in Int /\ Signed(x, 16) = x /\ Signed(x, SUM_W) = x
  /\ \A x \in Logit : x \in Int /\ Signed(x, DATA_W) = x
  /\ 0 \in Logit /\ 0 \in SumRange
  /\ DEPTH * Lo \in Int /\ DEPTH * Hi \in Int
  /\ SumRange \subseteq -(2^(SUM_W - 1)) .. 2^(SUM_W - 1) - 1
<1> USE SmoothingAssumption
<1>1. PICK h : h = 2^(DATA_W - 1)
  OBVIOUS
<1>2. PICK g : g = 2^(SUM_W - 1)
  OBVIOUS
<1>3. DATA_W \in 1 .. 16 /\ DATA_W - 1 \in 0 .. 15 /\ SUM_W \in 1 .. 16 /\ SUM_W - 1 \in 0 .. 15
  OBVIOUS
<1>4. h \in Nat \ {0}
  <2>1. PICK v \in 0 .. 15 : v = DATA_W - 1
    BY <1>3
  <2>2. 2^v \in Nat \ {0}
    BY <2>1, Powers, Zenon
  <2> QED
    BY <1>1, <2>1, <2>2
<1>5. g \in Nat \ {0} /\ g <= 2^15
  <2>1. PICK v \in 0 .. 15 : v = SUM_W - 1
    BY <1>3
  <2>2. 2^v \in Nat \ {0} /\ 2^v <= 2^15
    BY <2>1, Powers, Zenon
  <2> QED
    BY <1>2, <2>1, <2>2
<1>6. Lo = -h /\ Hi = h - 1
  BY <1>1, <1>4 DEF Lo, Hi
<1>7. DEPTH * h <= g
  BY <1>1, <1>2
<1>8. DEPTH \in Nat /\ DEPTH >= 1 /\ DEPTH * h \in Nat /\ DEPTH * (-h) = -(DEPTH * h) /\ DEPTH * (h - 1) = DEPTH * h - DEPTH
  BY <1>4
<1>9. ASSUME NEW x \in SumRange PROVE x \in Int /\ Signed(x, 16) = x /\ Signed(x, SUM_W) = x /\ x \in -g .. g - 1
  <2>1. x \in Int /\ -(DEPTH * h) <= x /\ x <= DEPTH * h - DEPTH
    BY <1>6, <1>8 DEF SumRange
  <2>2. -g <= x /\ x < g
    BY <1>5, <1>7, <1>8, <2>1
  <2>3. 16 \in 1 .. 16 /\ 16 - 1 = 15
    OBVIOUS
  <2>4. -(2^15) <= x /\ x < 2^15
    BY <1>5, <2>1, <2>2
  <2>5. Signed(x, 16) = x
    BY <2>1, <2>3, <2>4, SignedIs
  <2>6. Signed(x, SUM_W) = x
    BY <1>2, <1>3, <2>1, <2>2, SignedIs
  <2>7. x \in -g .. g - 1
    BY <1>5, <2>1, <2>2
  <2> QED
    BY <2>1, <2>5, <2>6, <2>7
<1>10. ASSUME NEW x \in Logit PROVE x \in Int /\ Signed(x, DATA_W) = x
  <2>1. x \in Int /\ -h <= x /\ x < h
    BY <1>4, <1>6 DEF Logit
  <2> QED
    BY <1>1, <1>3, <2>1, SignedIs
<1>11. 0 \in Logit /\ 0 \in SumRange
  BY <1>4, <1>6, <1>8 DEF Logit, SumRange
<1>12. SumRange \subseteq -(2^(SUM_W - 1)) .. 2^(SUM_W - 1) - 1
  BY <1>2, <1>9
<1> QED
  BY <1>4, <1>6, <1>8, <1>9, <1>10, <1>11, <1>12

\* The average of a sum is a logit.
LEMMA AverageIs ==
  ASSUME NEW x \in SumRange
  PROVE  x \div DEPTH \in Logit /\ Signed(Average(x, DEPTH), DATA_W) = x \div DEPTH
<1>1. PICK D \in 1 .. 15 : D = DEPTH
  BY SmoothingAssumption
<1>2. PICK h \in Nat \ {0} : Lo = -h /\ Hi = h - 1
  <2>1. -Lo \in Nat \ {0} /\ Lo = -(-Lo) /\ Hi = (-Lo) - 1
    BY Ranges
  <2> QED
    BY <2>1
<1>3. x \in Int /\ D * (-h) <= x /\ x <= D * (h - 1)
  BY <1>1, <1>2, Ranges DEF SumRange
<1>4. -h <= x \div D /\ x \div D <= h - 1 /\ x \div D \in Int
  <2>1. PICK q, y : q = x \div D /\ y = x % D
    OBVIOUS
  <2>2. q \in Int /\ y \in 0 .. D - 1 /\ x = D * q + y
    BY <1>3, <2>1
  <2>3. ~(q < -h)
    <3> SUFFICES ASSUME q < -h PROVE FALSE
      OBVIOUS
    <3>1. D * q <= D * (-h - 1)
      BY <2>2
    <3>2. D * (-h - 1) = D * (-h) - D
      OBVIOUS
    <3> QED
      BY <1>3, <2>2, <3>1, <3>2
  <2>4. ~(q > h - 1)
    <3> SUFFICES ASSUME q >= h PROVE FALSE
      BY <2>2
    <3>1. D * q >= D * h
      BY <2>2
    <3>2. D * (h - 1) = D * h - D
      OBVIOUS
    <3> QED
      BY <1>3, <2>2, <3>1, <3>2
  <2> QED
    BY <2>1, <2>2, <2>3, <2>4
<1>5. x \div DEPTH \in Logit
  BY <1>1, <1>2, <1>4 DEF Logit
<1> QED
  BY <1>5, Ranges DEF Average

\* Slots of a ring of DEPTH.
LEMMA SlotIs ==
  ASSUME NEW h \in Slots, NEW g, g = (h + 1) % DEPTH
  PROVE  /\ g \in Slots /\ g = IF h + 1 < DEPTH THEN h + 1 ELSE 0
         /\ Slot(g, 1) = h
         /\ \A i \in 1 .. DEPTH - 1 : Slot(h, i) \in Slots /\ Slot(h, i) # h /\ Slot(g, i + 1) = Slot(h, i)
         /\ \A i \in 1 .. DEPTH : Slot(h, i) \in Slots
         /\ Slot(h, DEPTH) = h
<1> USE SmoothingAssumption
<1>1. DEPTH \in Nat \ {0} /\ h \in 0 .. DEPTH - 1
  BY DEF Slots
<1>2. g = IF h + 1 < DEPTH THEN h + 1 ELSE 0
  <2>1. CASE h + 1 < DEPTH
    <3>1. h + 1 \in 0 .. DEPTH - 1
      BY <1>1, <2>1
    <3> QED
      BY <1>1, <2>1, <3>1
  <2>2. CASE ~(h + 1 < DEPTH)
    <3>1. h + 1 = DEPTH
      BY <1>1, <2>2
    <3>2. DEPTH % DEPTH = 0
      BY <1>1
    <3> QED
      BY <2>2, <3>1, <3>2
  <2> QED
    BY <2>1, <2>2
<1> QED
  BY <1>1, <1>2 DEF Slots, Slot

-----------------------------------------------------------------------------
(* Sums over a window. *)

\* p sums the first results of w in class k.
Partial(w, k, p) ==
  p \in [0 .. Len(w) -> Int] /\ p[0] = 0 /\ \A n \in 1 .. Len(w) : p[n] = p[n - 1] + w[n][k]

\* There are such sums.
LEMMA PartialIs ==
  ASSUME NEW w \in Seq(Results), NEW k \in Classes
  PROVE  \E p : Partial(w, k, p)
<1> DEFINE Q(n, p) == p \in [0 .. n -> Int] /\ p[0] = 0 /\ \A m \in 1 .. n : p[m] = p[m - 1] + w[m][k]
           S == {n \in 0 .. Len(w) : \E p : Q(n, p)}
<1>1. Len(w) \in Nat /\ \A m \in 1 .. Len(w) : w[m][k] \in Int
  BY Ranges DEF Results
<1>2. 0 \in S
  <2>1. Q(0, [n \in 0 .. 0 |-> 0])
    OBVIOUS
  <2>2. 0 \in 0 .. Len(w)
    BY <1>1
  <2> HIDE DEF Q
  <2> QED
    BY <2>1, <2>2
<1>3. ASSUME NEW n \in 0 .. Len(w) - 1, n \in S PROVE n + 1 \in S
  <2>1. PICK p : Q(n, p)
    BY <1>3
  <2> DEFINE q == [m \in 0 .. n + 1 |-> IF m = n + 1 THEN p[n] + w[n + 1][k] ELSE p[m]]
  <2>2. n \in Nat /\ n + 1 \in 1 .. Len(w) /\ w[n + 1][k] \in Int
    BY <1>1
  <2>3. q \in [0 .. n + 1 -> Int]
    BY <2>1, <2>2
  <2>4. q[0] = 0
    BY <2>1, <2>2
  <2>5. ASSUME NEW m \in 1 .. n + 1 PROVE q[m] = q[m - 1] + w[m][k]
    <3>1. CASE m = n + 1
      BY <2>2, <3>1
    <3>2. CASE m # n + 1
      <4>1. m \in 1 .. n /\ m - 1 \in 0 .. n /\ m - 1 # n + 1
        BY <2>2, <3>2
      <4> QED
        BY <2>1, <2>2, <3>2, <4>1
    <3> QED
      BY <3>1, <3>2
  <2>6. Q(n + 1, q)
    BY <2>3, <2>4, <2>5
  <2>7. n + 1 \in 0 .. Len(w)
    BY <2>2
  <2> HIDE DEF Q, q
  <2> QED
    BY <2>6, <2>7
<1>4. Len(w) \in S
  <2> HIDE DEF S
  <2>1. 0 .. Len(w) \subseteq S
    BY <1>1, <1>2, <1>3, Induct
  <2> QED
    BY <1>1, <2>1
<1> QED
  BY <1>4 DEF Partial

\* And the sum is the last of them.
LEMMA SumIs ==
  ASSUME NEW w \in Seq(Results), NEW k \in Classes, NEW p, Partial(w, k, p)
  PROVE  SumOver(w, k) = p[Len(w)]
<1>1. Len(w) \in Nat /\ p \in [0 .. Len(w) -> Int] /\ p[0] = 0 /\ \A n \in 1 .. Len(w) : p[n] = p[n - 1] + w[n][k]
  BY DEF Partial
<1>2. p = [n \in 0 .. Len(w) |-> IF n = 0 THEN 0 ELSE p[n - 1] + w[n][k]]
  <2> DEFINE q == [n \in 0 .. Len(w) |-> IF n = 0 THEN 0 ELSE p[n - 1] + w[n][k]]
  <2>1. ASSUME NEW n \in 0 .. Len(w) PROVE p[n] = q[n]
    <3>1. CASE n = 0
      BY <1>1, <3>1
    <3>2. CASE n # 0
      BY <1>1, <3>2
    <3> QED
      BY <3>1, <3>2
  <2> QED
    BY <1>1, <2>1
<1>3. PICK f : f = [n \in 0 .. Len(w) |-> IF n = 0 THEN 0 ELSE f[n - 1] + w[n][k]] /\ SumOver(w, k) = f[Len(w)]
  BY <1>2, Zenon DEF SumOver
<1> DEFINE S == {n \in 0 .. Len(w) : f[n] = p[n]}
<1>4. 0 \in S
  BY <1>1, <1>3
<1>5. ASSUME NEW n \in 0 .. Len(w) - 1, n \in S PROVE n + 1 \in S
  <2>1. n + 1 \in 1 .. Len(w) /\ n + 1 \in 0 .. Len(w) /\ (n + 1) - 1 = n /\ n + 1 # 0
    BY <1>1
  <2>2. f[n + 1] = f[n] + w[n + 1][k]
    BY <1>3, <2>1
  <2>3. p[n + 1] = p[n] + w[n + 1][k]
    BY <1>1, <2>1
  <2> QED
    BY <1>5, <2>1, <2>2, <2>3
<1>6. Len(w) \in S
  <2> HIDE DEF S
  <2>1. 0 .. Len(w) \subseteq S
    BY <1>1, <1>4, <1>5, Induct
  <2> QED
    BY <1>1, <2>1
<1> QED
  BY <1>3, <1>6

\* A sum of at most DEPTH logits is in range.
LEMMA SumBounds ==
  ASSUME NEW w \in Seq(Results), NEW k \in Classes, Len(w) <= DEPTH
  PROVE  SumOver(w, k) \in SumRange
<1>1. PICK p : Partial(w, k, p)
  BY PartialIs
<1>2. Len(w) \in Nat /\ p \in [0 .. Len(w) -> Int] /\ p[0] = 0 /\ \A n \in 1 .. Len(w) : p[n] = p[n - 1] + w[n][k]
  BY <1>1 DEF Partial
<1>3. \A n \in 1 .. Len(w) : w[n][k] \in Int /\ Lo <= w[n][k] /\ w[n][k] <= Hi
  BY Ranges DEF Results, Logit
<1>4. PICK l \in Int, h \in Int : l = Lo /\ h = Hi /\ l <= 0 /\ 0 <= h
  BY Ranges
<1> DEFINE S == {n \in 0 .. Len(w) : n * l <= p[n] /\ p[n] <= n * h}
<1>5. 0 \in S
  BY <1>2, <1>4
<1>6. ASSUME NEW n \in 0 .. Len(w) - 1, n \in S PROVE n + 1 \in S
  <2>1. n \in Nat /\ n + 1 \in 1 .. Len(w) /\ n + 1 \in 0 .. Len(w) /\ (n + 1) - 1 = n /\ n \in 0 .. Len(w)
    BY <1>2
  <2>2. p[n + 1] = p[n] + w[n + 1][k] /\ p[n] \in Int
    BY <1>2, <2>1
  <2>3. (n + 1) * l = n * l + l /\ (n + 1) * h = n * h + h /\ n * l \in Int /\ n * h \in Int
    BY <2>1
  <2>4. w[n + 1][k] \in Int /\ l <= w[n + 1][k] /\ w[n + 1][k] <= h
    BY <1>3, <1>4, <2>1
  <2> QED
    BY <1>6, <2>1, <2>2, <2>3, <2>4
<1>7. Len(w) \in S
  <2> HIDE DEF S
  <2>1. 0 .. Len(w) \subseteq S
    BY <1>2, <1>5, <1>6, Induct
  <2> QED
    BY <1>2, <2>1
<1>8. PICK n \in Nat : n = Len(w)
  BY <1>2
<1>9. n * l <= p[n] /\ p[n] <= n * h /\ p[n] \in Int
  BY <1>2, <1>7, <1>8
<1>10. DEPTH \in Nat /\ n <= DEPTH
  BY <1>8, SmoothingAssumption
<1>11. DEPTH * l <= n * l /\ n * h <= DEPTH * h /\ n * l \in Int /\ n * h \in Int /\ DEPTH * l \in Int /\ DEPTH * h \in Int
  <2>1. PICK e \in Nat : DEPTH = n + e
    <3>1. DEPTH - n \in Nat /\ DEPTH = n + (DEPTH - n)
      BY <1>10
    <3> QED
      BY <3>1
  <2>2. DEPTH * l = n * l + e * l /\ DEPTH * h = n * h + e * h
    BY <2>1
  <2>3. e * l <= 0 /\ e * h >= 0 /\ e * l \in Int /\ e * h \in Int
    BY <1>4
  <2> QED
    BY <1>4, <2>1, <2>2, <2>3
<1>12. p[n] \in SumRange
  BY <1>4, <1>9, <1>11 DEF SumRange
<1> QED
  BY <1>1, <1>8, <1>12, SumIs

\* A window moves on: u is v with l put before it and, when v is full, its oldest left out.
LEMMA SumNext ==
  ASSUME NEW v \in Seq(Results), NEW u \in Seq(Results), NEW l \in Results, NEW k \in Classes,
         Len(v) <= DEPTH, Len(u) = Lesser(Len(v) + 1, DEPTH), u[1] = l, \A i \in 1 .. Len(u) - 1 : u[i + 1] = v[i]
  PROVE  SumOver(u, k) = (SumOver(v, k) + l[k]) - (IF Len(v) < DEPTH THEN 0 ELSE v[DEPTH][k])
<1> USE SmoothingAssumption
<1>1. PICK p : Partial(v, k, p)
  BY PartialIs
<1>2. PICK f \in Nat, g \in Nat \ {0} : f = Len(v) /\ g = Len(u) /\ g = (IF f < DEPTH THEN f + 1 ELSE f)
  BY DEF Lesser
<1>3. p \in [0 .. f -> Int] /\ p[0] = 0 /\ \A n \in 1 .. f : p[n] = p[n - 1] + v[n][k]
  BY <1>1, <1>2 DEF Partial
<1>4. l[k] \in Int /\ \A n \in 1 .. f : v[n][k] \in Int
  BY <1>2, Ranges, SMTT(30) DEF Results
<1> DEFINE q == [n \in 0 .. g |-> IF n = 0 THEN 0 ELSE l[k] + p[n - 1]]
<1>5. \A n \in 1 .. g : n - 1 \in 0 .. f /\ p[n - 1] \in Int /\ q[n] = l[k] + p[n - 1]
  <2> SUFFICES ASSUME NEW n \in 1 .. g
               PROVE  n - 1 \in 0 .. f /\ p[n - 1] \in Int /\ q[n] = l[k] + p[n - 1]
    OBVIOUS
  <2>1. n - 1 \in 0 .. f
    BY <1>2
  <2>2. p[n - 1] \in Int
    BY <1>3, <2>1
  <2>3. n \in 0 .. g /\ n # 0
    OBVIOUS
  <2>4. q[n] = l[k] + p[n - 1]
    BY <2>3
  <2> QED
    BY <2>1, <2>2, <2>4
<1>6. q \in [0 .. g -> Int] /\ q[0] = 0
  <2>1. ASSUME NEW n \in 0 .. g PROVE (IF n = 0 THEN 0 ELSE l[k] + p[n - 1]) \in Int
    <3>1. CASE n = 0
      BY <3>1
    <3>2. CASE n # 0
      <4>1. n \in 1 .. g
        BY <3>2
      <4>2. p[n - 1] \in Int
        BY <1>5, <4>1
      <4> QED
        BY <1>4, <3>2, <4>2
    <3> QED
      BY <3>1, <3>2
  <2>2. q \in [0 .. g -> Int]
    BY <2>1
  <2>3. 0 \in 0 .. g
    BY <1>2
  <2> QED
    BY <2>2, <2>3
<1>7. ASSUME NEW n \in 1 .. g PROVE q[n] = q[n - 1] + u[n][k]
  <2>1. CASE n = 1
    <3>1. q[1] = l[k] + p[0] /\ q[0] = 0
      BY <1>5, <1>6, <2>1
    <3> QED
      BY <1>3, <1>4, <2>1, <3>1
  <2>2. CASE n # 1
    <3>1. PICK m \in 1 .. g - 1 : n = m + 1
      <4>1. n - 1 \in 1 .. g - 1 /\ n = (n - 1) + 1
        BY <2>2
      <4> QED
        BY <4>1
    <3>2. m \in 1 .. f /\ u[m + 1] = v[m] /\ m \in 1 .. g /\ (m + 1) - 1 = m
      BY <1>2, <3>1
    <3>3. q[m + 1] = l[k] + p[m] /\ q[m] = l[k] + p[m - 1] /\ p[m] = p[m - 1] + v[m][k] /\ p[m - 1] \in Int
      BY <1>3, <1>5, <3>1, <3>2
    <3> HIDE DEF q
    <3>4. q[m + 1] = q[m] + v[m][k]
      <4>1. v[m][k] \in Int
        BY <1>4, <3>2
      <4> QED
        BY <1>4, <3>3, <4>1, SMTT(30)
    <3> QED
      BY <3>1, <3>2, <3>4
  <2> QED
    BY <2>1, <2>2
<1>8. Partial(u, k, q)
  BY <1>2, <1>6, <1>7 DEF Partial
<1>9. SumOver(u, k) = q[g] /\ SumOver(v, k) = p[f]
  <2> HIDE DEF q
  <2> QED
    BY <1>1, <1>2, <1>8, SumIs
<1>10. q[g] = l[k] + p[g - 1]
  BY <1>5
<1>11. CASE f < DEPTH
  <2>1. g - 1 = f /\ p[f] \in Int
    BY <1>2, <1>3, <1>11
  <2> QED
    BY <1>2, <1>4, <1>9, <1>10, <1>11, <2>1
<1>12. CASE ~(f < DEPTH)
  <2>1. f = DEPTH /\ g = f /\ f \in 1 .. f /\ f - 1 \in 0 .. f
    BY <1>2, <1>12 DEF Lesser
  <2>2. p[f - 1] \in Int /\ p[f] = p[f - 1] + v[f][k]
    BY <1>3, <2>1
  <2> QED
    BY <1>2, <1>4, <1>9, <1>10, <1>12, <2>1, <2>2
<1> QED
  BY <1>11, <1>12

\* A window of no result, and the window of a reset.
LEMMA SumNone ==
  ASSUME NEW k \in Classes
  PROVE  SumOver(<<>>, k) = 0
<1>1. PICK p : Partial(<<>>, k, p)
  <2>1. <<>> \in Seq(Results)
    OBVIOUS
  <2> QED
    BY <2>1, PartialIs
<1>2. p[0] = 0
  BY <1>1 DEF Partial
<1>3. SumOver(<<>>, k) = p[Len(<<>>)]
  <2>1. <<>> \in Seq(Results)
    OBVIOUS
  <2> QED
    BY <1>1, <2>1, SumIs
<1> QED
  BY <1>2, <1>3

-----------------------------------------------------------------------------
(* The best class. *)

\* The best class is the lowest of the largest.
LEMMA ArgmaxIs ==
  ASSUME NEW v \in [Classes -> Int], NEW i \in Classes,
         \A j \in Classes : v[j] <= v[i] /\ (j < i => v[j] < v[i])
  PROVE  Argmax(v) = i
<1> DEFINE B(m) == \A j \in Classes : v[j] <= v[m] /\ (j < m => v[j] < v[m])
<1>1. B(i) /\ DOMAIN v = Classes
  OBVIOUS
<1>2. \A m \in Classes : B(m) => m = i
  <2> SUFFICES ASSUME NEW m \in Classes, B(m) PROVE m = i
    OBVIOUS
  <2>1. Classes \subseteq Int
    BY SmoothingAssumption DEF Classes
  <2>2. v[i] \in Int /\ v[m] \in Int /\ i \in Int /\ m \in Int
    BY <2>1
  <2>3. v[m] <= v[i] /\ (m < i => v[m] < v[i]) /\ v[i] <= v[m] /\ (i < m => v[i] < v[m])
    OBVIOUS
  <2> QED
    BY <2>2, <2>3
<1>3. Argmax(v) = CHOOSE m \in Classes : B(m)
  BY <1>1, Zenon DEF Argmax
<1> HIDE DEF B
<1> QED
  BY <1>1, <1>2, <1>3

\* There is one.
LEMMA ArgmaxType ==
  ASSUME NEW v \in [Classes -> Int]
  PROVE  Argmax(v) \in Classes
<1> DEFINE B(n, i) == i \in 0 .. n /\ \A j \in 0 .. n : v[j] <= v[i] /\ (j < i => v[j] < v[i])
           S == {n \in 0 .. N - 1 : \E i \in 0 .. n : B(n, i)}
<1>1. N - 1 \in Nat /\ Classes = 0 .. N - 1
  BY SmoothingAssumption DEF Classes
<1>2. \A j \in 0 .. N - 1 : v[j] \in Int
  BY <1>1
<1>3. 0 \in S
  <2>1. B(0, 0)
    BY <1>1, <1>2
  <2>2. 0 \in 0 .. 0 /\ 0 \in 0 .. N - 1
    BY <1>1
  <2> HIDE DEF B
  <2> QED
    BY <2>1, <2>2
<1>4. ASSUME NEW n \in 0 .. (N - 1) - 1, n \in S PROVE n + 1 \in S
  <2>1. PICK i \in 0 .. n : B(n, i)
    BY <1>4
  <2>2. n \in Nat /\ n + 1 \in 0 .. N - 1 /\ 0 .. n + 1 = (0 .. n) \cup {n + 1} /\ n + 1 \in 0 .. n + 1
        /\ 0 .. n + 1 \subseteq 0 .. N - 1
    BY <1>1
  <2>3. v[n + 1] \in Int /\ v[i] \in Int
    BY <1>2, <2>2
  <2>4. CASE v[n + 1] > v[i]
    <3>1. ASSUME NEW j \in 0 .. n + 1 PROVE v[j] <= v[n + 1] /\ (j < n + 1 => v[j] < v[n + 1])
      <4>1. CASE j = n + 1
        BY <2>3, <4>1
      <4>2. CASE j # n + 1
        <5>1. j \in 0 .. n /\ v[j] \in Int
          BY <1>2, <2>2, <4>2
        <5>2. v[j] <= v[i]
          BY <2>1, <5>1
        <5> QED
          BY <2>3, <2>4, <5>1, <5>2
      <4> QED
        BY <4>1, <4>2
    <3>2. B(n + 1, n + 1)
      BY <2>2, <3>1
    <3> HIDE DEF B
    <3> QED
      BY <2>2, <3>2
  <2>5. CASE ~(v[n + 1] > v[i])
    <3>1. ASSUME NEW j \in 0 .. n + 1 PROVE v[j] <= v[i] /\ (j < i => v[j] < v[i])
      <4>1. CASE j = n + 1
        BY <2>2, <2>3, <2>5, <4>1
      <4>2. CASE j # n + 1
        <5>1. j \in 0 .. n
          BY <2>2, <4>2
        <5> QED
          BY <2>1, <5>1
      <4> QED
        BY <4>1, <4>2
    <3>2. i \in 0 .. n + 1
      BY <2>2
    <3>3. B(n + 1, i)
      BY <3>1, <3>2
    <3> HIDE DEF B
    <3> QED
      BY <2>2, <3>2, <3>3
  <2> QED
    BY <2>4, <2>5
<1>5. N - 1 \in S
  <2> HIDE DEF S
  <2>1. 0 .. N - 1 \subseteq S
    BY <1>1, <1>3, <1>4, Induct
  <2> QED
    BY <1>1, <2>1
<1>6. PICK i \in 0 .. N - 1 : B(N - 1, i)
  BY <1>5
<1>7. i \in Classes /\ \A j \in Classes : v[j] <= v[i] /\ (j < i => v[j] < v[i])
  BY <1>1, <1>6
<1> QED
  BY <1>7, ArgmaxIs

\* The host computes with the same operators.
LEMMA HostMath ==
  /\ \A v : Host!Argmax(v) = Argmax(v)
  /\ \A x, w : Host!Signed(x, w) = Signed(x, w)
  /\ \A x, d : Host!Average(x, d) = Average(x, d)
  /\ \A S : Host!Cardinality(S) = Cardinality(S)
<1>1. \A S : Host!Cardinality(S) = Cardinality(S)
  BY Zenon DEF Host!Cardinality, Cardinality
<1> QED
  BY <1>1 DEF Host!Argmax, Argmax, Host!Signed, Signed, Host!Average, Average

\* A result folded, with the operators of the device.
LEMMA FoldedAs ==
  ASSUME NEW s, NEW l, NEW w
  PROVE  Host!Folded(s, l, w) =
           [s EXCEPT
             !.sums = [c \in Classes |-> Signed(s.sums[c] + l[c] - s.hist[s.head][c], 16)],
             !.hist = [s.hist EXCEPT ![s.head] = l], !.head = (s.head + 1) % DEPTH,
             !.win_hist = [s.win_hist EXCEPT ![s.whead] = w], !.whead = (s.whead + 1) % DEPTH,
             !.fill = IF s.fill < DEPTH THEN s.fill + 1 ELSE s.fill]
<1>1. Host!Folded(s, l, w) =
        [s EXCEPT
          !.sums     = [c \in 0 .. N - 1 |-> Signed(@[c] + l[c] - s.hist[s.head][c], 16)],
          !.hist     = [@ EXCEPT ![s.head] = l],
          !.head     = (@ + 1) % DEPTH,
          !.win_hist = [@ EXCEPT ![s.whead] = w],
          !.whead    = (@ + 1) % DEPTH,
          !.fill     = IF @ < DEPTH THEN @ + 1 ELSE @]
  BY HostMath, Zenon DEF Host!Folded
<1> QED
  BY <1>1, Zenon DEF Classes

\* And field by field.
LEMMA FoldedIs ==
  ASSUME NEW s \in HostStates, NEW l \in Results, NEW w \in Classes, NEW t, t = Host!Folded(s, l, w)
  PROVE  /\ \A k \in Classes : t.sums[k] = Signed(s.sums[k] + l[k] - s.hist[s.head][k], 16)
         /\ \A d \in Slots : t.hist[d] = IF d = s.head THEN l ELSE s.hist[d]
         /\ \A d \in Slots : t.win_hist[d] = IF d = s.whead THEN w ELSE s.win_hist[d]
         /\ t.head = (s.head + 1) % DEPTH
         /\ t.whead = (s.whead + 1) % DEPTH
         /\ t.fill = IF s.fill < DEPTH THEN s.fill + 1 ELSE s.fill
         /\ t.consec = s.consec /\ t.last_cand = s.last_cand /\ t.debounce_cnt = s.debounce_cnt
         /\ (\A k \in Classes : Signed(s.sums[k] + l[k] - s.hist[s.head][k], 16) \in SumRange) => t \in HostStates
<1> DEFINE su == [c \in Classes |-> Signed(s.sums[c] + l[c] - s.hist[s.head][c], 16)]
           hi == [s.hist EXCEPT ![s.head] = l]
           he == (s.head + 1) % DEPTH
           wh == [s.win_hist EXCEPT ![s.whead] = w]
           we == (s.whead + 1) % DEPTH
           fi == IF s.fill < DEPTH THEN s.fill + 1 ELSE s.fill
           m == [s EXCEPT !.sums = su, !.hist = hi, !.head = he, !.win_hist = wh, !.whead = we, !.fill = fi]
<1>2. t = m
  BY FoldedAs, Zenon
<1>3. /\ s.hist \in [Slots -> Results] /\ s.head \in Slots /\ s.win_hist \in [Slots -> Classes] /\ s.whead \in Slots
      /\ s.fill \in 0 .. DEPTH
  BY DEF HostStates
<1>4. hi \in [Slots -> Results] /\ wh \in [Slots -> Classes]
  BY <1>3
<1>5. he \in Slots /\ we \in Slots /\ fi \in 0 .. DEPTH
  <2>1. DEPTH \in Nat \ {0}
    BY SmoothingAssumption
  <2> QED
    BY <1>3, <2>1, SMTT(30) DEF Slots
<1> HIDE DEF su, hi, he, wh, we, fi
<1>6. /\ t.sums = su /\ t.hist = hi /\ t.head = he /\ t.win_hist = wh /\ t.whead = we /\ t.fill = fi
      /\ t.consec = s.consec /\ t.last_cand = s.last_cand /\ t.debounce_cnt = s.debounce_cnt
  BY <1>2 DEF HostStates
<1>7. (\A k \in Classes : Signed(s.sums[k] + l[k] - s.hist[s.head][k], 16) \in SumRange) => t \in HostStates
  <2> SUFFICES ASSUME \A k \in Classes : Signed(s.sums[k] + l[k] - s.hist[s.head][k], 16) \in SumRange
               PROVE  t \in HostStates
    OBVIOUS
  <2>1. su \in [Classes -> SumRange]
    BY DEF su
  <2> QED
    BY <1>2, <1>4, <1>5, <2>1 DEF HostStates
<1>8. \A k \in Classes : t.sums[k] = Signed(s.sums[k] + l[k] - s.hist[s.head][k], 16)
  BY <1>6 DEF su
<1>9. \A d \in Slots : t.hist[d] = IF d = s.head THEN l ELSE s.hist[d]
  BY <1>3, <1>6 DEF hi
<1>10. \A d \in Slots : t.win_hist[d] = IF d = s.whead THEN w ELSE s.win_hist[d]
  BY <1>3, <1>6 DEF wh
<1>11. /\ t.head = (s.head + 1) % DEPTH /\ t.whead = (s.whead + 1) % DEPTH
       /\ t.fill = IF s.fill < DEPTH THEN s.fill + 1 ELSE s.fill
  BY <1>6 DEF he, we, fi
<1> QED
  BY <1>6, <1>7, <1>8, <1>9, <1>10, <1>11

-----------------------------------------------------------------------------
(* A result is fed in. *)

\* The larger and the smaller of two numbers.
LEMMA MinMaxIs ==
  ASSUME NEW a \in Int, NEW b \in Int
  PROVE  Min({a, b}) = Lesser(a, b) /\ Max({a, b}) = IF a < b THEN b ELSE a
<1>1. Min({a, b}) = Lesser(a, b)
  <2> DEFINE m == Lesser(a, b)
  <2>1. m \in {a, b} /\ \A y \in {a, b} : m =< y
    BY DEF Lesser
  <2>2. \A x \in {a, b} : (\A y \in {a, b} : x =< y) => x = m
    BY DEF Lesser
  <2> DEFINE B(x) == \A y \in {a, b} : x =< y
  <2>3. Min({a, b}) = CHOOSE x \in {a, b} : B(x)
    BY Zenon DEF Min
  <2>4. m \in {a, b} /\ B(m) /\ \A x \in {a, b} : B(x) => x = m
    BY <2>1, <2>2
  <2> HIDE DEF m, B
  <2>5. Min({a, b}) = m
    BY <2>3, <2>4
  <2> QED
    BY <2>5 DEF m
<1>2. Max({a, b}) = IF a < b THEN b ELSE a
  <2> DEFINE m == IF a < b THEN b ELSE a
  <2>1. m \in {a, b} /\ \A y \in {a, b} : m >= y
    OBVIOUS
  <2>2. \A x \in {a, b} : (\A y \in {a, b} : x >= y) => x = m
    OBVIOUS
  <2> DEFINE B(x) == \A y \in {a, b} : x >= y
  <2>3. Max({a, b}) = CHOOSE x \in {a, b} : B(x)
    BY Zenon DEF Max
  <2>4. m \in {a, b} /\ B(m) /\ \A x \in {a, b} : B(x) => x = m
    BY <2>1, <2>2
  <2> HIDE DEF m, B
  <2>5. Max({a, b}) = m
    BY <2>3, <2>4
  <2> QED
    BY <2>5 DEF m
<1> QED
  BY <1>1, <1>2

\* How many results are kept.
LEMMA RecentMax ==
  /\ RECENT_MAX \in Nat /\ RECENT_MAX >= DEPTH /\ RECENT_MAX >= DEPTH + MIN_CONSEC - 1 /\ RECENT_MAX >= MIN_CONSEC
  /\ DEPTH \in Nat \ {0} /\ MIN_CONSEC \in Nat /\ MIN_CONSEC <= MAX_RUN /\ RECENT_MAX >= 1
  /\ CALM_MAX \in Nat /\ CALM_MAX >= DEBOUNCE /\ CALM_MAX >= MIN_CONSEC /\ DEBOUNCE \in Nat
<1> USE SmoothingAssumption
<1>1. MIN_CONSEC \in Int /\ 1 \in Int /\ DEBOUNCE \in Int /\ MIN_CONSEC >= 0 /\ MIN_CONSEC <= MAX_RUN
  OBVIOUS
<1>2. Max({MIN_CONSEC, 1}) = IF MIN_CONSEC < 1 THEN 1 ELSE MIN_CONSEC
  BY <1>1, MinMaxIs
<1>3. Max({DEBOUNCE, MIN_CONSEC}) = IF DEBOUNCE < MIN_CONSEC THEN MIN_CONSEC ELSE DEBOUNCE
  BY <1>1, MinMaxIs
<1> QED
  BY <1>1, <1>2, <1>3 DEF RECENT_MAX, CALM_MAX

\* The results with one more.
Newer(r, l) == SubSeq(<<l>> \o r, 1, Lesser(Len(r) + 1, RECENT_MAX))

\* They are l, then the results there were, as far as there is room.
LEMMA NewerIs ==
  ASSUME NEW r \in Seq(Results), NEW l \in Results
  PROVE  /\ Newer(r, l) \in Seq(Results) /\ Len(r) \in Nat /\ Len(Newer(r, l)) = Lesser(Len(r) + 1, RECENT_MAX)
         /\ Newer(r, l)[1] = l
         /\ \A i \in 1 .. Len(Newer(r, l)) - 1 : i \in 1 .. Len(r) /\ Newer(r, l)[i + 1] = r[i]
<1> DEFINE c == <<l>> \o r
           m == Lesser(Len(r) + 1, RECENT_MAX)
<1>1. <<l>> \in Seq(Results) /\ Len(<<l>>) = 1 /\ <<l>>[1] = l /\ Len(r) \in Nat
  OBVIOUS
<1>2. /\ c \in Seq(Results) /\ Len(c) = Len(r) + 1
      /\ \A i \in 1 .. Len(r) + 1 : c[i] = IF i <= 1 THEN <<l>>[i] ELSE r[i - 1]
  BY <1>1, ConcatProperties
<1>3. m \in 1 .. Len(c)
  BY <1>1, <1>2, RecentMax DEF Lesser
<1> HIDE DEF c, m
<1>4. /\ SubSeq(c, 1, m) \in Seq(Results) /\ Len(SubSeq(c, 1, m)) = m
      /\ \A i \in 1 .. m : SubSeq(c, 1, m)[i] = c[i]
  BY <1>2, <1>3
<1>5. c[1] = l
  BY <1>1, <1>2
<1>6. \A i \in 1 .. m - 1 : i \in 1 .. Len(r) /\ i + 1 \in 1 .. m /\ c[i + 1] = r[i]
  BY <1>1, <1>2, <1>3
<1>7. Newer(r, l) = SubSeq(c, 1, m)
  BY DEF Newer, c, m
<1>8. m = Lesser(Len(r) + 1, RECENT_MAX)
  BY DEF m
<1>9. /\ Newer(r, l) \in Seq(Results) /\ Len(Newer(r, l)) = m /\ Newer(r, l)[1] = l
  BY <1>3, <1>4, <1>5, <1>7
<1>10. ASSUME NEW i \in 1 .. m - 1 PROVE i \in 1 .. Len(r) /\ Newer(r, l)[i + 1] = r[i]
  <2>1. i \in 1 .. Len(r) /\ i + 1 \in 1 .. m /\ c[i + 1] = r[i]
    BY <1>6
  <2> QED
    BY <2>1, <1>4, <1>7
<1> QED
  BY <1>1, <1>8, <1>9, <1>10

\* The first results of a sequence.
LEMMA FirstIs ==
  ASSUME NEW r \in Seq(Results), NEW f \in 0 .. Len(r)
  PROVE  /\ SubSeq(r, 1, f) \in Seq(Results) /\ Len(SubSeq(r, 1, f)) = f
         /\ \A i \in 1 .. f : SubSeq(r, 1, f)[i] = r[i]
OBVIOUS

\* The reference that knows the results knows one more when it has folded it.
LEMMA KnowsNext ==
  ASSUME NEW s \in HostStates, NEW r \in Seq(Results), Knows(s, r), NEW l \in Results,
         NEW u, u = Newer(r, l), NEW t, t = Host!Folded(s, l, Argmax(l))
  PROVE  /\ t \in HostStates /\ Knows(t, u)
         /\ \A k \in Classes : s.sums[k] + l[k] - s.hist[s.head][k] \in SumRange
         /\ \A k \in Classes : t.sums[k] = s.sums[k] + l[k] - s.hist[s.head][k]
<1>1. PICK h, g, f, e : h = s.head /\ g = (h + 1) % DEPTH /\ f = s.fill /\ e = t.fill
  OBVIOUS
<1>2. /\ f = Lesser(Len(r), DEPTH) /\ s.whead = h /\ (f < DEPTH => h = f)
      /\ \A i \in 1 .. f : s.hist[Slot(h, i)] = r[i] /\ s.win_hist[Slot(h, i)] = Argmax(r[i])
      /\ \A d \in f .. DEPTH - 1 : s.hist[d] = Zeroes
      /\ \A k \in Classes : s.sums[k] = SumOver(SubSeq(r, 1, f), k)
  BY <1>1, Zenon DEF Knows
<1>3. /\ h \in Slots /\ f \in 0 .. DEPTH /\ s.hist \in [Slots -> Results] /\ s.win_hist \in [Slots -> Classes]
      /\ s.sums \in [Classes -> SumRange]
  BY <1>1 DEF HostStates
<1>4. Argmax(l) \in Classes
  BY ArgmaxType, Ranges DEF Results, Logit
<1>5. /\ \A k \in Classes : t.sums[k] = Signed(s.sums[k] + l[k] - s.hist[h][k], 16)
      /\ \A d \in Slots : t.hist[d] = IF d = h THEN l ELSE s.hist[d]
      /\ \A d \in Slots : t.win_hist[d] = IF d = h THEN Argmax(l) ELSE s.win_hist[d]
      /\ t.head = g /\ t.whead = g
      /\ e = IF f < DEPTH THEN f + 1 ELSE f
      /\ (\A k \in Classes : Signed(s.sums[k] + l[k] - s.hist[h][k], 16) \in SumRange) => t \in HostStates
  <2>1. PICK a \in Classes : a = Argmax(l)
    BY <1>4
  <2>2. t = Host!Folded(s, l, a)
    BY <2>1, Zenon
  <2>3. /\ \A k \in Classes : t.sums[k] = Signed(s.sums[k] + l[k] - s.hist[s.head][k], 16)
        /\ \A d \in Slots : t.hist[d] = IF d = s.head THEN l ELSE s.hist[d]
        /\ \A d \in Slots : t.win_hist[d] = IF d = s.whead THEN a ELSE s.win_hist[d]
        /\ t.head = (s.head + 1) % DEPTH
        /\ t.whead = (s.whead + 1) % DEPTH
        /\ t.fill = IF s.fill < DEPTH THEN s.fill + 1 ELSE s.fill
        /\ (\A k \in Classes : Signed(s.sums[k] + l[k] - s.hist[s.head][k], 16) \in SumRange) => t \in HostStates
    BY <2>2, FoldedIs
  <2> QED
    BY <1>1, <1>2, <2>1, <2>3, ZenonT(30)
<1>6. /\ u \in Seq(Results) /\ Len(r) \in Nat /\ Len(u) = Lesser(Len(r) + 1, RECENT_MAX) /\ u[1] = l
      /\ \A i \in 1 .. Len(u) - 1 : i \in 1 .. Len(r) /\ u[i + 1] = r[i]
  BY NewerIs
<1>7. /\ DEPTH \in Nat \ {0} /\ RECENT_MAX >= DEPTH /\ RECENT_MAX \in Nat
  BY RecentMax
<1>8. /\ e = Lesser(Len(u), DEPTH) /\ e \in 1 .. DEPTH /\ e \in 0 .. Len(u) /\ f \in 0 .. Len(r)
      /\ e = Lesser(f + 1, DEPTH)
  BY <1>2, <1>3, <1>5, <1>6, <1>7 DEF Lesser
<1>9. /\ g \in Slots /\ g = (IF h + 1 < DEPTH THEN h + 1 ELSE 0) /\ Slot(g, 1) = h
      /\ \A i \in 1 .. DEPTH - 1 : Slot(h, i) \in Slots /\ Slot(h, i) # h /\ Slot(g, i + 1) = Slot(h, i)
      /\ Slot(h, DEPTH) = h
  BY <1>1, <1>3, SlotIs
<1>10. e < DEPTH => g = e
  BY <1>2, <1>3, <1>5, <1>7, <1>8, <1>9 DEF Lesser
<1>11. ASSUME NEW i \in 1 .. e PROVE t.hist[Slot(g, i)] = u[i] /\ t.win_hist[Slot(g, i)] = Argmax(u[i])
  <2>1. CASE i = 1
    BY <1>3, <1>5, <1>6, <1>9, <2>1
  <2>2. CASE i # 1
    <3>1. PICK j : i = j + 1 /\ j \in 1 .. f /\ j \in 1 .. DEPTH - 1 /\ j \in 1 .. Len(u) - 1
      <4>1. i = (i - 1) + 1 /\ i - 1 \in 1 .. f /\ i - 1 \in 1 .. DEPTH - 1 /\ i - 1 \in 1 .. Len(u) - 1
        BY <1>3, <1>5, <1>7, <1>8, <2>2
      <4> QED
        BY <4>1
    <3>2. Slot(g, i) = Slot(h, j) /\ Slot(h, j) # h /\ Slot(h, j) \in Slots /\ u[i] = r[j]
      BY <1>6, <1>9, <3>1
    <3>3. s.hist[Slot(h, j)] = r[j] /\ s.win_hist[Slot(h, j)] = Argmax(r[j])
      BY <1>2, <3>1
    <3> QED
      BY <1>3, <1>5, <3>2, <3>3
  <2> QED
    BY <2>1, <2>2
<1>12. ASSUME NEW d \in e .. DEPTH - 1 PROVE t.hist[d] = Zeroes
  <2>1. f < DEPTH /\ h = f /\ d \in f .. DEPTH - 1 /\ d # h /\ d \in Slots
    BY <1>2, <1>3, <1>5, <1>7 DEF Slots
  <2> QED
    BY <1>2, <1>3, <1>5, <2>1
<1> DEFINE v == SubSeq(r, 1, f)
           w == SubSeq(u, 1, e)
<1>13. /\ v \in Seq(Results) /\ Len(v) = f /\ \A i \in 1 .. f : v[i] = r[i]
       /\ w \in Seq(Results) /\ Len(w) = e /\ \A i \in 1 .. e : w[i] = u[i]
  BY <1>6, <1>8, FirstIs
<1>14. w[1] = l /\ \A i \in 1 .. Len(w) - 1 : w[i + 1] = v[i]
  <2>1. w[1] = l
    BY <1>6, <1>8, <1>13
  <2>2. ASSUME NEW i \in 1 .. e - 1 PROVE w[i + 1] = v[i]
    <3>1. i + 1 \in 1 .. e /\ i \in 1 .. f /\ i \in 1 .. Len(u) - 1
      BY <1>3, <1>5, <1>8
    <3> QED
      BY <1>6, <1>13, <3>1
  <2> QED
    BY <1>13, <2>1, <2>2
<1>15. ASSUME NEW k \in Classes
       PROVE  SumOver(w, k) = s.sums[k] + l[k] - s.hist[h][k] /\ SumOver(w, k) \in SumRange
  <2>1. s.hist[h][k] = IF f < DEPTH THEN 0 ELSE v[DEPTH][k]
    <3>1. CASE f < DEPTH
      <4>1. s.hist[h] = Zeroes
        BY <1>2, <1>3, <1>7, <3>1
      <4> QED
        BY <3>1, <4>1 DEF Zeroes
    <3>2. CASE ~(f < DEPTH)
      <4>1. f = DEPTH /\ DEPTH \in 1 .. f
        BY <1>3, <1>7, <3>2
      <4> QED
        BY <1>2, <1>9, <1>13, <3>2, <4>1
    <3> QED
      BY <3>1, <3>2
  <2>2. Len(v) <= DEPTH /\ Len(w) = Lesser(Len(v) + 1, DEPTH) /\ Len(w) <= DEPTH
    BY <1>3, <1>8, <1>13
  <2> HIDE DEF v, w
  <2>3. SumOver(w, k) = (SumOver(v, k) + l[k]) - (IF Len(v) < DEPTH THEN 0 ELSE v[DEPTH][k])
    BY <1>13, <1>14, <2>2, SumNext
  <2>4. SumOver(w, k) \in SumRange
    BY <1>13, <2>2, SumBounds
  <2>5. SumOver(v, k) = s.sums[k]
    BY <1>2 DEF v
  <2>6. PICK x, y, z, o : x = s.sums[k] /\ y = l[k] /\ z = s.hist[h][k] /\ o = SumOver(w, k)
    OBVIOUS
  <2>7. z = (IF Len(v) < DEPTH THEN 0 ELSE v[DEPTH][k])
    BY <1>13, <2>1, <2>6
  <2>8. o = (x + y) - z
    BY <2>3, <2>5, <2>6, <2>7
  <2>9. x \in Int /\ y \in Int /\ z \in Int
    BY <1>3, <2>6, Ranges DEF Results
  <2>10. o = x + y - z
    BY <2>8, <2>9
  <2> QED
    BY <2>4, <2>6, <2>10
<1>16. \A k \in Classes : t.sums[k] = SumOver(w, k) /\ t.sums[k] = s.sums[k] + l[k] - s.hist[h][k] /\ t.sums[k] \in SumRange
  <2> HIDE DEF w
  <2> SUFFICES ASSUME NEW k \in Classes
               PROVE  t.sums[k] = SumOver(w, k) /\ t.sums[k] = s.sums[k] + l[k] - s.hist[h][k] /\ t.sums[k] \in SumRange
    OBVIOUS
  <2>1. PICK x : x = s.sums[k] + l[k] - s.hist[h][k]
    OBVIOUS
  <2>2. SumOver(w, k) = x /\ x \in SumRange
    BY <1>15, <2>1
  <2>3. Signed(x, 16) = x
    BY <2>2, Ranges
  <2>4. t.sums[k] = Signed(x, 16)
    BY <1>5, <2>1
  <2> QED
    BY <2>1, <2>2, <2>3, <2>4
<1>17. t \in HostStates
  BY <1>5, <1>16
<1>18. Knows(t, u)
  <2>1. \A k \in Classes : t.sums[k] = SumOver(SubSeq(u, 1, e), k)
    BY <1>16
  <2>2. t.head = g /\ t.whead = g /\ t.fill = e
    BY <1>1, <1>5
  <2>3. /\ t.fill = Lesser(Len(u), DEPTH) /\ t.whead = t.head /\ (t.fill < DEPTH => t.head = t.fill)
    BY <1>8, <1>10, <2>2
  <2>4. /\ \A i \in 1 .. t.fill : t.hist[Slot(t.head, i)] = u[i] /\ t.win_hist[Slot(t.head, i)] = Argmax(u[i])
        /\ \A d \in t.fill .. DEPTH - 1 : t.hist[d] = Zeroes
        /\ \A k \in Classes : t.sums[k] = SumOver(SubSeq(u, 1, t.fill), k)
    BY <1>11, <1>12, <2>1, <2>2
  <2> QED
    BY <2>3, <2>4, Zenon DEF Knows
<1> QED
  BY <1>1, <1>15, <1>16, <1>17, <1>18

-----------------------------------------------------------------------------
(* Addresses, the memory and what is expected of the reference. *)

\* The parameters, and the first of every range.
LEMMA Sizes ==
  /\ N \in Nat /\ N > 1 /\ DEPTH \in Nat \ {0} /\ HIST_D \in Nat /\ HIST_D >= 1 /\ MAX_RUN \in Nat \ {0} /\ DEBOUNCE \in Nat
  /\ 0 \in Slots /\ 0 \in Classes /\ 0 \in Addresses /\ N - 1 \in Classes
  /\ Zeroes \in Results /\ Zeroes \in [Classes -> SumRange]
  /\ TARGETS \subseteq Classes /\ LOGITS \subseteq Results /\ THRESH \in Int /\ VOTE_MIN \in Nat
<1>1. PICK n, d : n = N /\ d = DEPTH
  OBVIOUS
<1>2. n \in Nat /\ n > 1 /\ d \in 1 .. 15
  BY <1>1, SmoothingAssumption
<1>3. d * n \in Nat /\ d * n >= 1
  BY <1>2
<1>4. 0 \in Slots /\ 0 \in Classes /\ N - 1 \in Classes
  BY <1>1, <1>2 DEF Slots, Classes
<1>5. HIST_D \in Nat /\ HIST_D >= 1 /\ 0 \in Addresses
  BY <1>1, <1>3 DEF HIST_D, Addresses
<1>6. Zeroes \in Results /\ Zeroes \in [Classes -> SumRange]
  BY Ranges DEF Zeroes, Results
<1>7. LOGITS \subseteq Results
  BY LogitsAssumption DEF Results, Logit, Lo, Hi
<1> QED
  BY <1>1, <1>2, <1>4, <1>5, <1>6, <1>7, SmoothingAssumption

\* A word of the memory for each slot and class.
LEMMA AddrIs ==
  ASSUME NEW d \in Slots, NEW k \in Classes
  PROVE  /\ d * N + k \in Addresses
         /\ \A e \in Slots, j \in Classes : d * N + k = e * N + j => d = e /\ k = j
<1>1. PICK n \in Nat, m \in Nat : n = N /\ m = DEPTH /\ n > 1 /\ m > 0
  BY Sizes
<1>2. d \in Nat /\ d <= m - 1 /\ k \in Nat /\ k <= n - 1
  BY <1>1 DEF Slots, Classes
<1>3. \A e \in Nat, j \in Nat : d < e => d * n + n <= e * n
  <2> SUFFICES ASSUME NEW e \in Nat, d < e PROVE d * n + n <= e * n
    OBVIOUS
  <2>1. PICK q \in Nat : e = (d + 1) + q
    <3>1. e - (d + 1) \in Nat /\ e = (d + 1) + (e - (d + 1))
      BY <1>2
    <3> QED
      BY <3>1
  <2>2. e * n = (d * n + n) + q * n /\ q * n \in Nat /\ d * n \in Nat
    BY <1>1, <1>2, <2>1
  <2> QED
    BY <1>1, <2>2
<1>4. \A e \in Nat : e < d => e * n + n <= d * n
  <2> SUFFICES ASSUME NEW e \in Nat, e < d PROVE e * n + n <= d * n
    OBVIOUS
  <2>1. PICK q \in Nat : d = (e + 1) + q
    <3>1. d - (e + 1) \in Nat /\ d = (e + 1) + (d - (e + 1))
      BY <1>2
    <3> QED
      BY <3>1
  <2>2. d * n = (e * n + n) + q * n /\ q * n \in Nat /\ e * n \in Nat
    BY <1>1, <1>2, <2>1
  <2> QED
    BY <1>1, <2>2
<1>5. d * N + k \in Addresses
  <2>1. d < m /\ m \in Nat
    BY <1>1, <1>2
  <2>2. d * n + n <= m * n /\ d * n \in Nat /\ m * n \in Nat
    BY <1>1, <1>2, <1>3, <2>1
  <2>3. d * n + k \in 0 .. m * n - 1
    BY <1>1, <1>2, <2>2
  <2> QED
    BY <1>1, <2>3 DEF Addresses, HIST_D
<1>6. ASSUME NEW e \in Slots, NEW j \in Classes, d * N + k = e * N + j PROVE d = e /\ k = j
  <2>1. e \in Nat /\ j \in Nat /\ j <= n - 1
    BY <1>1 DEF Slots, Classes
  <2>2. d * n \in Nat /\ e * n \in Nat /\ d * n + k = e * n + j
    BY <1>1, <1>2, <1>6, <2>1
  <2>3. ~(d < e)
    <3> SUFFICES ASSUME d < e PROVE FALSE
      OBVIOUS
    <3>1. d * n + n <= e * n
      BY <1>3, <2>1
    <3> QED
      BY <1>1, <1>2, <2>1, <2>2, <3>1
  <2>4. ~(e < d)
    <3> SUFFICES ASSUME e < d PROVE FALSE
      OBVIOUS
    <3>1. e * n + n <= d * n
      BY <1>4, <2>1
    <3> QED
      BY <1>1, <1>2, <2>1, <2>2, <3>1
  <2>5. d = e
    BY <1>2, <2>1, <2>3, <2>4
  <2> QED
    BY <1>2, <2>1, <2>2, <2>5
<1> QED
  BY <1>5, <1>6

\* An edge of the memory does the write on its way.
LEMMA RamNext ==
  ASSUME Types, RamEdge
  PROVE  /\ hist' = Ram /\ RamTypes' /\ hist_rdata' = hist[hist_raddr]
         /\ \A a \in Addresses : hist_wr = NoWrite => hist[a] = Ram[a]
         /\ hist_wr' = NoWrite => Ram' = Ram
         /\ \A a \in Addresses, x \in Logit : hist_wr' = <<a, x>> =>
              \A b \in Addresses : Ram'[b] = IF b = a THEN x ELSE Ram[b]
<1>1. hist' = Ram /\ hist_rdata' = hist[hist_raddr]
  BY DEF RamEdge, Ram
<1>2. hist \in [Addresses -> Logit] /\ hist_raddr \in Addresses
  BY DEF Types, RamTypes, AccTypes
<1>3. Ram \in [Addresses -> Logit]
  <2>1. CASE hist_wr = NoWrite
    BY <1>2, <2>1 DEF Ram
  <2>2. CASE hist_wr # NoWrite
    <3>1. PICK a \in Addresses, v \in Logit : hist_wr = <<a, v>>
      BY <2>2 DEF Types, AccTypes
    <3>2. Ram = [hist EXCEPT ![a] = v]
      BY <2>2, <3>1 DEF Ram
    <3> QED
      BY <1>2, <3>2
  <2> QED
    BY <2>1, <2>2
<1>4. RamTypes'
  BY <1>1, <1>2, <1>3 DEF RamTypes
<1>5. hist_wr' = NoWrite => Ram' = Ram
  BY <1>1 DEF Ram
<1>6. ASSUME NEW a \in Addresses, NEW x \in Logit, hist_wr' = <<a, x>>, NEW b \in Addresses
      PROVE  Ram'[b] = IF b = a THEN x ELSE Ram[b]
  <2>1. hist_wr' # NoWrite
    BY <1>6 DEF NoWrite
  <2>2. Ram' = [hist' EXCEPT ![a] = x]
    BY <1>6, <2>1 DEF Ram
  <2> QED
    BY <1>1, <1>3, <2>2
<1>7. \A a \in Addresses : hist_wr = NoWrite => hist[a] = Ram[a]
  BY DEF Ram
<1> QED
  BY <1>1, <1>4, <1>5, <1>6, <1>7

\* What the reference will be is a state of it.
LEMMA TargetIs ==
  ASSUME Types, Control, FoldInv
  PROVE  /\ Target \in HostStates
         /\ Target.consec = ref.consec /\ Target.last_cand = ref.last_cand /\ Target.debounce_cnt = ref.debounce_cnt
         /\ Pending => /\ recent[1] \in Results /\ Argmax(recent[1]) \in Classes
                       /\ \A k \in Classes : Target.sums[k] = Moved(k)
                       /\ \A d \in Slots : Target.hist[d] = IF d = ref.head THEN recent[1] ELSE ref.hist[d]
                       /\ Target.head = (ref.head + 1) % DEPTH
<1>1. CASE ~Pending
  BY <1>1 DEF Target, Types, PairTypes
<1>2. CASE Pending
  <2>1. recent \in Seq(Results) /\ recent # <<>> /\ ref \in HostStates
    BY <1>2 DEF Control, Types, PairTypes
  <2>2. recent[1] \in Results
    BY <2>1
  <2>3. Argmax(recent[1]) \in Classes
    BY <2>2, ArgmaxType, Ranges DEF Results, Logit
  <2>4. PICK l \in Results, w \in Classes : l = recent[1] /\ w = Argmax(recent[1])
    BY <2>2, <2>3
  <2>5. Target = Host!Folded(ref, l, w)
    BY <1>2, <2>4 DEF Target
  <2>6. \A k \in Classes : Moved(k) = ref.sums[k] + l[k] - ref.hist[ref.head][k] /\ Moved(k) \in SumRange
    BY <1>2, <2>4 DEF FoldInv, Moved
  <2>7. /\ \A k \in Classes : Target.sums[k] = Signed(ref.sums[k] + l[k] - ref.hist[ref.head][k], 16)
        /\ \A d \in Slots : Target.hist[d] = IF d = ref.head THEN l ELSE ref.hist[d]
        /\ Target.head = (ref.head + 1) % DEPTH
        /\ Target.consec = ref.consec /\ Target.last_cand = ref.last_cand /\ Target.debounce_cnt = ref.debounce_cnt
        /\ (\A k \in Classes : Signed(ref.sums[k] + l[k] - ref.hist[ref.head][k], 16) \in SumRange) => Target \in HostStates
    BY <2>1, <2>5, FoldedIs
  <2>8. \A k \in Classes : Signed(ref.sums[k] + l[k] - ref.hist[ref.head][k], 16) = Moved(k)
    BY <2>6, Ranges
  <2> QED
    BY <2>2, <2>3, <2>4, <2>6, <2>7, <2>8
<1> QED
  BY <1>1, <1>2

\* The ranges are those of TypeOK.
LEMMA TypesOK == Types => TypeOK
<1>1. SumRange \subseteq -(2^(SUM_W - 1)) .. 2^(SUM_W - 1) - 1
  BY Ranges
<1>2. Types => sum \in [Classes -> -(2^(SUM_W - 1)) .. 2^(SUM_W - 1) - 1]
  BY <1>1 DEF Types, AccTypes
<1>3. Types => hist_wr = NoWrite \/ hist_wr[1] \in 0 .. HIST_D - 1
  BY DEF Types, AccTypes, Addresses
<1> QED
  BY <1>2, <1>3 DEF TypeOK, Types, AccTypes, VoteTypes, PhaseTypes, Slots, Addresses

-----------------------------------------------------------------------------
(* What does not change. *)

\* The reference's first state.
LEMMA RefStateIs ==
  /\ Host!RefState0 \in HostStates
  /\ Host!RefState0.sums = Zeroes /\ Host!RefState0.head = 0 /\ \A d \in Slots : Host!RefState0.hist[d] = Zeroes
  /\ Host!RefState0.win_hist = [d \in Slots |-> 0] /\ Host!RefState0.whead = 0 /\ Host!RefState0.fill = 0
  /\ Host!RefState0.consec = 0 /\ Host!RefState0.debounce_cnt = 0
<1>1. Host!RefState0 =
        [sums |-> Zeroes, hist |-> [d \in Slots |-> Zeroes], head |-> 0, win_hist |-> [d \in Slots |-> 0],
         whead |-> 0, fill |-> 0, consec |-> 0, last_cand |-> -1, debounce_cnt |-> 0]
  BY Zenon DEF Host!RefState0, Zeroes, Slots, Classes
<1> DEFINE hi == [d \in Slots |-> Zeroes]
           wi == [d \in Slots |-> 0]
<1>2. hi \in [Slots -> Results] /\ wi \in [Slots -> Classes] /\ \A d \in Slots : hi[d] = Zeroes
  BY Sizes
<1>3. Zeroes \in [Classes -> SumRange] /\ 0 \in Slots /\ 0 \in 0 .. DEPTH /\ 0 \in 0 .. MAX_RUN /\ 0 \in 0 .. DEBOUNCE
      /\ -1 \in Classes \cup {-1}
  BY Sizes
<1> HIDE DEF hi, wi
<1>4. Host!RefState0 =
        [sums |-> Zeroes, hist |-> hi, head |-> 0, win_hist |-> wi,
         whead |-> 0, fill |-> 0, consec |-> 0, last_cand |-> -1, debounce_cnt |-> 0]
  BY <1>1 DEF hi, wi
<1>5. Host!RefState0 \in HostStates
  BY <1>2, <1>3, <1>4 DEF HostStates
<1> QED
  BY <1>2, <1>4, <1>5 DEF wi

\* As long as nothing is fed in or decided, the same is expected.
LEMMA Steady ==
  ASSUME UNCHANGED <<recent, ref>>, Pending' <=> Pending
  PROVE  /\ Target' = Target /\ \A k : Moved(k)' = Moved(k)
         /\ Knows(Target, recent) => Knows(Target, recent)'
<1>1. recent' = recent /\ ref' = ref
  OBVIOUS
<1>2. Target' = Target
  BY <1>1 DEF Target
<1>3. \A k : Moved(k)' = Moved(k)
  BY <1>1 DEF Moved
<1>4. Knows(Target, recent)' <=> Knows(Target', recent')
  BY DEF Knows
<1> QED
  BY <1>1, <1>2, <1>3, <1>4

\* A cycle in which the smoother waits.
LEMMA IdleStep ==
  ASSUME MirrorInv, PairTick, phase = "IDLE", ~(pend /\ acc_busy_d /\ ~AccBusy)
  PROVE  /\ RamEdge /\ AccEdge(FALSE, Zeroes) /\ ~Deciding /\ (Pending' <=> Pending) /\ Target' = Target
         /\ UNCHANGED <<ref, evt, recent, calm, pend, phase, sm_idx, sm_val, scan_c, consec, debounce, last_cand>>
         /\ UNCHANGED <<win_hist, hist_fill, whead>>
         /\ VoteTypes' /\ PhaseTypes' /\ PairTypes' /\ RamTypes' /\ Knows(Target, recent)' /\ DecisionInv'
         /\ (Pending => \A k \in Classes : Moved(k) \in SumRange)'
<1>1. /\ RamEdge /\ AccEdge(FALSE, Zeroes) /\ UNCHANGED <<win_hist, hist_fill, whead>> /\ acc_busy_d' = AccBusy
      /\ Wait(FALSE) \/ Scan(FALSE) \/ Eval(FALSE)
  BY DEF PairTick, Tick, Edge, PhaseEdge, VoteEdge, voteVars
<1>2. ~Deciding /\ UNCHANGED <<ref, evt, recent, calm>>
  BY DEF PairTick, Decide, Deciding
<1>3. Wait(FALSE)
  BY <1>1 DEF Scan, Eval
<1>4. UNCHANGED <<pend, phase, sm_idx, sm_val, scan_c, consec, debounce, last_cand>>
  BY <1>3 DEF Wait, MirrorInv, Types, PhaseTypes
<1>5. Pending' <=> Pending
  BY <1>4 DEF Pending
<1>6. Target' = Target /\ (\A k : Moved(k)' = Moved(k)) /\ Knows(Target, recent)'
  BY <1>2, <1>5, Steady DEF MirrorInv
<1>7. VoteTypes' /\ PhaseTypes' /\ PairTypes' /\ RamTypes'
  <2>1. RamTypes'
    BY <1>1, RamNext DEF MirrorInv
  <2>2. acc_busy_d' \in BOOLEAN
    BY <1>1 DEF AccBusy
  <2> QED
    BY <1>1, <1>2, <1>4, <2>1, <2>2 DEF MirrorInv, Types, VoteTypes, PhaseTypes, PairTypes
<1>8. DecisionInv'
  BY <1>2, <1>4 DEF MirrorInv, DecisionInv
<1>9. (Pending => \A k \in Classes : Moved(k) \in SumRange)'
  BY <1>5, <1>6 DEF MirrorInv, FoldInv
<1> QED
  BY <1>1, <1>2, <1>4, <1>5, <1>6, <1>7, <1>8, <1>9

-----------------------------------------------------------------------------
(* The cycles of the accumulator. *)

\* The memory is cleared after a reset.
LEMMA ClearNext ==
  ASSUME MirrorInv, PairTick, acc = "CLR"
  PROVE  MirrorInv'
<1>1. phase = "IDLE" /\ ~pend /\ recent = <<>> /\ ref = Host!RefState0 /\ sum = Zeroes /\ head = 0
  BY DEF MirrorInv, Control
<1>2. /\ RamEdge /\ AccEdge(FALSE, Zeroes) /\ (Pending' <=> Pending) /\ Target' = Target
      /\ UNCHANGED <<ref, recent, pend, phase, win_hist, hist_fill, whead>>
      /\ VoteTypes' /\ PhaseTypes' /\ PairTypes' /\ RamTypes' /\ Knows(Target, recent)' /\ DecisionInv'
      /\ (Pending => \A k \in Classes : Moved(k) \in SumRange)'
  BY <1>1, IdleStep
<1>3. AccClr
  BY <1>2 DEF AccEdge, AccIdle, AccRd, AccWait, AccUpd
<1>4. /\ hist_wr' = <<clr_addr, 0>> /\ UNCHANGED <<acc_c, head, logits, sum, hist_raddr>>
      /\ \/ clr_addr = HIST_D - 1 /\ acc' = "IDLE" /\ UNCHANGED clr_addr
         \/ clr_addr < HIST_D - 1 /\ clr_addr' = clr_addr + 1 /\ UNCHANGED acc
  BY <1>3 DEF AccClr
<1>5. clr_addr \in Addresses /\ 0 \in Logit /\ HIST_D \in Nat /\ HIST_D >= 1
  BY Sizes, Ranges DEF MirrorInv, Types, AccTypes
<1>6. \A b \in Addresses : Ram'[b] = IF b = clr_addr THEN 0 ELSE Ram[b]
  BY <1>2, <1>4, <1>5, RamNext DEF MirrorInv
<1>7. AccTypes'
  <2>1. clr_addr' \in Addresses
    BY <1>4, <1>5 DEF Addresses
  <2>2. acc' \in {"IDLE", "CLR", "RD", "WAIT", "UPD"}
    BY <1>4 DEF MirrorInv, Types, AccTypes
  <2> QED
    BY <1>4, <1>5, <2>1, <2>2 DEF MirrorInv, Types, AccTypes
<1>8. Control'
  BY <1>1, <1>2, <1>4 DEF Control, Pending, Folding
<1>9. ~Pending /\ Target = ref /\ ~Folding'
  BY <1>1, <1>4 DEF Pending, Target, Folding
<1>10. (acc = "CLR" => \A a \in Addresses : a < clr_addr => Ram[a] = 0)'
  <2> SUFFICES ASSUME acc' = "CLR", NEW a \in Addresses, a < clr_addr' PROVE Ram'[a] = 0
    BY Zenon
  <2>1. clr_addr' = clr_addr + 1
    BY <1>4
  <2>2. a = clr_addr \/ a < clr_addr
    BY <1>5, <2>1 DEF Addresses
  <2> QED
    BY <1>6, <2>2 DEF MirrorInv, FoldInv
<1>11. (acc = "IDLE" =>
         /\ head = Target.head /\ sum = Target.sums
         /\ \A d \in Slots, k \in Classes : Ram[d * N + k] = Target.hist[d][k])'
  <2> SUFFICES ASSUME acc' = "IDLE"
               PROVE  /\ head' = Target.head /\ sum' = Target.sums
                      /\ \A d \in Slots, k \in Classes : Ram'[d * N + k] = Target.hist[d][k]
    BY <1>2
  <2>1. clr_addr = HIST_D - 1
    BY <1>4
  <2>2. head' = Target.head /\ sum' = Target.sums
    BY <1>1, <1>4, <1>9, RefStateIs
  <2>3. ASSUME NEW d \in Slots, NEW k \in Classes PROVE Ram'[d * N + k] = Target.hist[d][k]
    <3>1. PICK a \in Addresses : a = d * N + k
      BY AddrIs
    <3>2. a = clr_addr \/ a < clr_addr
      BY <1>5, <2>1 DEF Addresses
    <3>3. Ram'[a] = 0
      BY <1>6, <3>2 DEF MirrorInv, FoldInv
    <3>4. Target.hist[d][k] = 0
      BY <1>1, <1>9, RefStateIs DEF Zeroes
    <3> QED
      BY <3>1, <3>3, <3>4
  <2> QED
    BY <2>2, <2>3
<1>12. FoldInv'
  <2>1. (win_hist = Target.win_hist /\ hist_fill = Target.fill /\ whead = Target.whead)'
    BY <1>2 DEF MirrorInv, FoldInv
  <2>2. ~Folding' /\ acc' # "WAIT" /\ acc' # "UPD"
    BY <1>9 DEF Folding
  <2> QED
    BY <1>2, <1>10, <1>11, <2>1, <2>2 DEF FoldInv
<1> QED
  BY <1>2, <1>7, <1>8, <1>12 DEF MirrorInv, Types

\* Nothing to fold, and the smoother waits.
LEMMA QuietNext ==
  ASSUME MirrorInv, PairTick, acc = "IDLE", phase = "IDLE", ~(pend /\ acc_busy_d /\ ~AccBusy)
  PROVE  MirrorInv'
<1>2. /\ RamEdge /\ AccEdge(FALSE, Zeroes) /\ (Pending' <=> Pending) /\ Target' = Target
      /\ UNCHANGED <<ref, recent, pend, phase, win_hist, hist_fill, whead>>
      /\ VoteTypes' /\ PhaseTypes' /\ PairTypes' /\ RamTypes' /\ Knows(Target, recent)' /\ DecisionInv'
      /\ (Pending => \A k \in Classes : Moved(k) \in SumRange)'
  BY IdleStep
<1>3. AccIdle(FALSE, Zeroes)
  BY <1>2 DEF AccEdge, AccClr, AccRd, AccWait, AccUpd
<1>4. hist_wr' = NoWrite /\ UNCHANGED <<acc, acc_c, head, clr_addr, logits, sum, hist_raddr>>
  BY <1>3 DEF AccIdle
<1>5. Ram' = Ram
  BY <1>2, <1>4, RamNext DEF MirrorInv
<1>6. AccTypes'
  BY <1>4 DEF MirrorInv, Types, AccTypes
<1>7. Control'
  BY <1>2, <1>4 DEF MirrorInv, Control, Pending, Folding
<1>8. FoldInv'
  <2>1. (win_hist = Target.win_hist /\ hist_fill = Target.fill /\ whead = Target.whead)'
    BY <1>2 DEF MirrorInv, FoldInv
  <2>2. (/\ head = Target.head /\ sum = Target.sums
         /\ \A d \in Slots, k \in Classes : Ram[d * N + k] = Target.hist[d][k])'
    BY <1>2, <1>4, <1>5 DEF MirrorInv, FoldInv
  <2>3. ~Folding' /\ acc' = "IDLE"
    BY <1>4 DEF Folding
  <2> QED
    BY <1>2, <2>1, <2>2, <2>3 DEF FoldInv
<1> QED
  BY <1>2, <1>6, <1>7, <1>8 DEF MirrorInv, Types

\* The read of a word of the slot to be replaced, and the cycle it takes.
LEMMA ReadNext ==
  ASSUME MirrorInv, PairTick, acc \in {"RD", "WAIT"}
  PROVE  MirrorInv'
<1>1. phase = "IDLE" /\ pend /\ logits = recent[1] /\ Folding /\ AccBusy
  BY DEF MirrorInv, Control, Folding, AccBusy
<1>2. /\ RamEdge /\ AccEdge(FALSE, Zeroes) /\ (Pending' <=> Pending) /\ Target' = Target
      /\ UNCHANGED <<ref, recent, pend, phase, win_hist, hist_fill, whead>>
      /\ VoteTypes' /\ PhaseTypes' /\ PairTypes' /\ RamTypes' /\ Knows(Target, recent)' /\ DecisionInv'
      /\ (Pending => \A k \in Classes : Moved(k) \in SumRange)'
  BY <1>1, IdleStep
<1>3. head \in Slots /\ acc_c \in Classes
  BY DEF MirrorInv, Types, AccTypes
<1>4. FoldAddr \in Addresses
  BY <1>3, AddrIs DEF FoldAddr
<1>5. /\ hist_wr' = NoWrite /\ UNCHANGED <<acc_c, head, clr_addr, logits, sum>>
      /\ \/ acc = "RD" /\ acc' = "WAIT" /\ hist_raddr' = FoldAddr
         \/ acc = "WAIT" /\ acc' = "UPD" /\ hist_raddr' = hist_raddr
  BY <1>2 DEF AccEdge, AccIdle, AccClr, AccRd, AccWait, AccUpd
<1>6. Ram' = Ram
  BY <1>2, <1>5, RamNext DEF MirrorInv
<1>7. AccTypes'
  BY <1>4, <1>5 DEF MirrorInv, Types, AccTypes
<1>8. Control'
  BY <1>1, <1>2, <1>5 DEF MirrorInv, Control, Pending, Folding
<1>9. acc' = "UPD" => hist_rdata' = ref.hist[head][acc_c]
  <2> SUFFICES ASSUME acc' = "UPD" PROVE hist_rdata' = ref.hist[head][acc_c]
    OBVIOUS
  <2>1. acc = "WAIT" /\ hist_wr = NoWrite /\ hist_raddr = FoldAddr
    BY <1>5 DEF MirrorInv, Control, FoldInv
  <2>2. hist_rdata' = Ram[FoldAddr]
    BY <1>2, <1>4, <2>1, RamNext DEF MirrorInv
  <2>3. Ram[head * N + acc_c] = IF head = head /\ acc_c < acc_c THEN logits[acc_c] ELSE ref.hist[head][acc_c]
    BY <1>1, <1>3 DEF MirrorInv, FoldInv
  <2>4. ~(acc_c < acc_c)
    BY <1>3, Sizes DEF Classes
  <2> QED
    BY <2>2, <2>3, <2>4 DEF FoldAddr
<1>10. FoldInv'
  <2>1. (win_hist = Target.win_hist /\ hist_fill = Target.fill /\ whead = Target.whead)'
    BY <1>2 DEF MirrorInv, FoldInv
  <2>2. (/\ head = ref.head
         /\ \A k \in Classes : sum[k] = IF k < acc_c THEN Target.sums[k] ELSE ref.sums[k]
         /\ \A d \in Slots, k \in Classes :
              Ram[d * N + k] = IF d = head /\ k < acc_c THEN logits[k] ELSE ref.hist[d][k])'
    <3>1. /\ head = ref.head
          /\ \A k \in Classes : sum[k] = IF k < acc_c THEN Target.sums[k] ELSE ref.sums[k]
          /\ \A d \in Slots, k \in Classes :
               Ram[d * N + k] = IF d = head /\ k < acc_c THEN logits[k] ELSE ref.hist[d][k]
      BY <1>1 DEF MirrorInv, FoldInv
    <3>2. head' = head /\ ref' = ref /\ sum' = sum /\ acc_c' = acc_c /\ logits' = logits
      BY <1>2, <1>5
    <3> QED
      BY <1>2, <1>6, <3>1, <3>2
  <2>3. (acc = "WAIT" => hist_raddr = FoldAddr)'
    BY <1>5 DEF FoldAddr
  <2>4. (acc = "UPD" => hist_rdata = ref.hist[head][acc_c])'
    BY <1>2, <1>5, <1>9
  <2>5. acc' # "CLR" /\ acc' # "IDLE"
    BY <1>5
  <2> QED
    BY <1>2, <2>1, <2>2, <2>3, <2>4, <2>5 DEF FoldInv
<1> QED
  BY <1>2, <1>7, <1>8, <1>10 DEF MirrorInv, Types

\* A class is folded: its sum moves, its word is written.
LEMMA FoldNext ==
  ASSUME MirrorInv, PairTick, acc = "UPD"
  PROVE  MirrorInv'
<1>1. phase = "IDLE" /\ pend /\ logits = recent[1] /\ Folding /\ AccBusy /\ Pending
  BY DEF MirrorInv, Control, Folding, AccBusy, Pending
<1>2. /\ RamEdge /\ AccEdge(FALSE, Zeroes) /\ (Pending' <=> Pending) /\ Target' = Target
      /\ UNCHANGED <<ref, recent, pend, phase, win_hist, hist_fill, whead>>
      /\ VoteTypes' /\ PhaseTypes' /\ PairTypes' /\ RamTypes' /\ Knows(Target, recent)' /\ DecisionInv'
      /\ (Pending => \A k \in Classes : Moved(k) \in SumRange)'
  BY <1>1, IdleStep
<1>3. /\ head \in Slots /\ acc_c \in Classes /\ logits \in Results /\ sum \in [Classes -> SumRange]
      /\ ref \in HostStates
  BY DEF MirrorInv, Types, AccTypes, PairTypes
<1>4. PICK n, x : n = FoldAddr /\ x = logits[acc_c]
  OBVIOUS
<1>5. n \in Addresses /\ x \in Logit
  BY <1>3, <1>4, AddrIs DEF FoldAddr, Results
<1>6. /\ sum' = [sum EXCEPT ![acc_c] = Signed(sum[acc_c] + logits[acc_c] - hist_rdata, SUM_W)]
      /\ hist_wr' = <<n, x>> /\ UNCHANGED <<clr_addr, logits, hist_raddr>>
      /\ \/ acc_c = N - 1 /\ acc' = "IDLE" /\ head' = (head + 1) % DEPTH /\ UNCHANGED acc_c
         \/ acc_c < N - 1 /\ acc' = "RD" /\ acc_c' = acc_c + 1 /\ UNCHANGED head
  BY <1>2, <1>4 DEF AccEdge, AccIdle, AccClr, AccRd, AccWait, AccUpd
<1>7. \A b \in Addresses : Ram'[b] = IF b = n THEN x ELSE Ram[b]
  BY <1>2, <1>5, <1>6, RamNext DEF MirrorInv
<1>8. /\ Target \in HostStates /\ Target.head = (ref.head + 1) % DEPTH
      /\ \A k \in Classes : Target.sums[k] = Moved(k)
      /\ \A d \in Slots : Target.hist[d] = IF d = ref.head THEN logits ELSE ref.hist[d]
  BY <1>1, TargetIs DEF MirrorInv
<1>9. /\ head = ref.head /\ hist_rdata = ref.hist[head][acc_c]
      /\ \A k \in Classes : sum[k] = IF k < acc_c THEN Target.sums[k] ELSE ref.sums[k]
      /\ \A d \in Slots, k \in Classes :
           Ram[d * N + k] = IF d = head /\ k < acc_c THEN logits[k] ELSE ref.hist[d][k]
  BY <1>1 DEF MirrorInv, FoldInv
<1>10. N \in Nat /\ N > 1 /\ acc_c \in 0 .. N - 1 /\ \A k \in Classes : k \in Nat
  BY <1>3, Sizes DEF Classes
<1>11. Signed(sum[acc_c] + logits[acc_c] - hist_rdata, SUM_W) = Target.sums[acc_c]
  <2>1. sum[acc_c] = ref.sums[acc_c]
    BY <1>3, <1>9, <1>10
  <2>2. sum[acc_c] + logits[acc_c] - hist_rdata = Moved(acc_c)
    BY <1>1, <1>9, <2>1 DEF Moved
  <2>3. Moved(acc_c) \in SumRange
    BY <1>1, <1>3 DEF MirrorInv, FoldInv
  <2> QED
    BY <1>3, <1>8, <2>2, <2>3, Ranges
<1>12. Target.sums \in [Classes -> SumRange]
  BY <1>8 DEF HostStates
<1>13. /\ sum' \in [Classes -> SumRange]
       /\ \A k \in Classes : sum'[k] = IF k <= acc_c THEN Target.sums[k] ELSE ref.sums[k]
  <2>1. sum' = [sum EXCEPT ![acc_c] = Target.sums[acc_c]]
    BY <1>6, <1>11
  <2>2. sum' \in [Classes -> SumRange]
    BY <1>3, <1>12, <2>1
  <2>3. ASSUME NEW k \in Classes PROVE sum'[k] = IF k <= acc_c THEN Target.sums[k] ELSE ref.sums[k]
    <3>1. CASE k = acc_c
      BY <1>3, <1>10, <2>1, <3>1
    <3>2. CASE k # acc_c
      <4>1. sum'[k] = sum[k] /\ (k <= acc_c <=> k < acc_c)
        BY <1>3, <1>10, <2>1, <3>2
      <4> QED
        BY <1>9, <4>1
    <3> QED
      BY <3>1, <3>2
  <2> QED
    BY <2>2, <2>3
<1>14. \A d \in Slots, k \in Classes :
         Ram'[d * N + k] = IF d = head /\ k <= acc_c THEN logits[k] ELSE ref.hist[d][k]
  <2> TAKE d \in Slots, k \in Classes
  <2>1. PICK a \in Addresses : a = d * N + k
    BY AddrIs
  <2>2. CASE d = head /\ k = acc_c
    <3>1. a = n
      BY <1>4, <2>1, <2>2 DEF FoldAddr
    <3> QED
      BY <1>4, <1>7, <1>10, <2>1, <2>2, <3>1
  <2>3. CASE ~(d = head /\ k = acc_c)
    <3>1. a # n
      BY <1>3, <1>4, <2>1, <2>3, AddrIs DEF FoldAddr
    <3>2. Ram'[a] = Ram[a]
      BY <1>7, <3>1
    <3>3. (d = head /\ k < acc_c) <=> (d = head /\ k <= acc_c)
      BY <1>10, <2>3
    <3>4. Ram[a] = IF d = head /\ k < acc_c THEN logits[k] ELSE ref.hist[d][k]
      BY <1>9, <2>1
    <3> QED
      BY <2>1, <3>2, <3>3, <3>4
  <2> QED
    BY <2>2, <2>3
<1>15. AccTypes'
  <2>1. head' \in Slots
    BY <1>3, <1>6, Sizes DEF Slots
  <2>2. acc_c' \in Classes
    BY <1>6, <1>10 DEF Classes
  <2>3. hist_wr' # NoWrite => \E a \in Addresses, v \in Logit : hist_wr' = <<a, v>>
    BY <1>5, <1>6
  <2>4. acc' \in {"IDLE", "CLR", "RD", "WAIT", "UPD"} /\ UNCHANGED <<clr_addr, logits, hist_raddr>>
    BY <1>6
  <2> QED
    BY <1>13, <2>1, <2>2, <2>3, <2>4 DEF MirrorInv, Types, AccTypes
<1>16. Control'
  BY <1>1, <1>2, <1>6 DEF MirrorInv, Control, Pending, Folding
<1>17. (Folding =>
         /\ head = ref.head
         /\ \A k \in Classes : sum[k] = IF k < acc_c THEN Target.sums[k] ELSE ref.sums[k]
         /\ \A d \in Slots, k \in Classes :
              Ram[d * N + k] = IF d = head /\ k < acc_c THEN logits[k] ELSE ref.hist[d][k])'
  <2> SUFFICES ASSUME Folding'
               PROVE  /\ head' = ref.head
                      /\ \A k \in Classes : sum'[k] = IF k < acc_c' THEN Target.sums[k] ELSE ref.sums[k]
                      /\ \A d \in Slots, k \in Classes :
                           Ram'[d * N + k] = IF d = head' /\ k < acc_c' THEN logits[k] ELSE ref.hist[d][k]
    BY <1>2, <1>6
  <2>1. acc_c' = acc_c + 1 /\ head' = head
    BY <1>6 DEF Folding
  <2>2. \A k \in Classes : k < acc_c' <=> k <= acc_c
    BY <1>10, <2>1
  <2> QED
    BY <1>9, <1>13, <1>14, <2>1, <2>2
<1>18. (acc = "IDLE" =>
         /\ head = Target.head /\ sum = Target.sums
         /\ \A d \in Slots, k \in Classes : Ram[d * N + k] = Target.hist[d][k])'
  <2> SUFFICES ASSUME acc' = "IDLE"
               PROVE  /\ head' = Target.head /\ sum' = Target.sums
                      /\ \A d \in Slots, k \in Classes : Ram'[d * N + k] = Target.hist[d][k]
    BY <1>2
  <2>1. acc_c = N - 1 /\ head' = Target.head
    BY <1>6, <1>8, <1>9
  <2>2. \A k \in Classes : k <= acc_c
    BY <1>10, <2>1 DEF Classes
  <2>3. sum' = Target.sums
    BY <1>12, <1>13, <2>2
  <2>4. \A d \in Slots, k \in Classes : Ram'[d * N + k] = Target.hist[d][k]
    BY <1>8, <1>9, <1>14, <2>2
  <2> QED
    BY <2>1, <2>3, <2>4
<1>19. FoldInv'
  <2>1. (win_hist = Target.win_hist /\ hist_fill = Target.fill /\ whead = Target.whead)'
    BY <1>2 DEF MirrorInv, FoldInv
  <2>2. acc' # "CLR" /\ acc' # "WAIT" /\ acc' # "UPD"
    BY <1>6
  <2> QED
    BY <1>2, <1>17, <1>18, <2>1, <2>2 DEF FoldInv
<1> QED
  BY <1>2, <1>15, <1>16, <1>19 DEF MirrorInv, Types

-----------------------------------------------------------------------------
(* The cycles of the decision. *)

\* An accumulator with nothing to do.
LEMMA AccRest ==
  ASSUME MirrorInv, acc = "IDLE", RamEdge, AccEdge(FALSE, Zeroes)
  PROVE  /\ UNCHANGED <<acc, acc_c, head, clr_addr, logits, sum, hist_raddr>> /\ Ram' = Ram
         /\ AccTypes' /\ RamTypes'
<1>1. AccIdle(FALSE, Zeroes)
  BY DEF AccEdge, AccClr, AccRd, AccWait, AccUpd
<1>2. hist_wr' = NoWrite /\ UNCHANGED <<acc, acc_c, head, clr_addr, logits, sum, hist_raddr>>
  BY <1>1 DEF AccIdle
<1>3. Ram' = Ram /\ RamTypes'
  BY <1>2, RamNext DEF MirrorInv
<1>4. AccTypes'
  BY <1>2 DEF MirrorInv, Types, AccTypes
<1> QED
  BY <1>2, <1>3, <1>4

\* A cycle between a result that is folded and its decision.
LEMMA PhaseStep ==
  ASSUME MirrorInv, PairTick, acc = "IDLE", Pending, phase # "EVAL", Pending', phase' # "IDLE" => ~pend',
         PhaseTypes', UNCHANGED <<consec, debounce, last_cand>>,
         (phase = "SCAN" => scan_c \in 1 .. N - 1 /\ Leads(scan_c))', (phase = "EVAL" => Leads(N))'
  PROVE  MirrorInv'
<1>1. RamEdge /\ AccEdge(FALSE, Zeroes) /\ UNCHANGED <<win_hist, hist_fill, whead>>
  BY DEF PairTick, Tick, Edge, VoteEdge, voteVars
<1>2. UNCHANGED <<ref, evt, recent, calm>>
  BY DEF PairTick, Decide, Deciding
<1>3. UNCHANGED <<acc, acc_c, head, clr_addr, logits, sum, hist_raddr>> /\ Ram' = Ram /\ AccTypes' /\ RamTypes'
  BY <1>1, AccRest
<1>4. Target' = Target /\ (\A k : Moved(k)' = Moved(k)) /\ Knows(Target, recent)'
  BY <1>2, Steady DEF MirrorInv
<1>5. Types'
  BY <1>1, <1>2, <1>3 DEF MirrorInv, Types, VoteTypes, PairTypes
<1>6. Control'
  BY <1>2, <1>3 DEF MirrorInv, Control, Folding
<1>7. FoldInv'
  <2>1. (win_hist = Target.win_hist /\ hist_fill = Target.fill /\ whead = Target.whead)'
    BY <1>1, <1>4 DEF MirrorInv, FoldInv
  <2>2. (/\ head = Target.head /\ sum = Target.sums
         /\ \A d \in Slots, k \in Classes : Ram[d * N + k] = Target.hist[d][k])'
    BY <1>3, <1>4 DEF MirrorInv, FoldInv
  <2>3. ~Folding' /\ acc' = "IDLE"
    BY <1>3 DEF Folding
  <2>4. (\A k \in Classes : Moved(k) \in SumRange)'
    BY <1>4 DEF MirrorInv, FoldInv
  <2> QED
    BY <2>1, <2>2, <2>3, <2>4 DEF FoldInv
<1>8. DecisionInv'
  BY <1>2 DEF MirrorInv, DecisionInv
<1> QED
  BY <1>4, <1>5, <1>6, <1>7, <1>8 DEF MirrorInv

\* What the device reads of an average.
LEMMA MeanIs ==
  ASSUME Types, NEW k \in Classes
  PROVE  Avg(k) = Mean(k) /\ Mean(k) \in Logit /\ Mean(k) \in Int
<1>1. sum[k] \in SumRange
  BY DEF Types, AccTypes
<1> QED
  BY <1>1, AverageIs, Ranges DEF Avg, Mean

\* The fold is done: the scan starts with the first class.
LEMMA StartNext ==
  ASSUME MirrorInv, PairTick, acc = "IDLE", phase = "IDLE", pend, acc_busy_d
  PROVE  MirrorInv'
<1>1. /\ RamEdge /\ AccEdge(FALSE, Zeroes) /\ acc_busy_d' = AccBusy
      /\ Wait(FALSE) \/ Scan(FALSE) \/ Eval(FALSE)
  BY DEF PairTick, Tick, Edge, PhaseEdge
<1>2. Wait(FALSE) /\ ~AccBusy
  BY <1>1 DEF Scan, Eval, AccBusy
<1>3. /\ sm_idx' = 0 /\ sm_val' = Avg(0) /\ scan_c' = 1 /\ pend' = FALSE /\ phase' = "SCAN"
      /\ UNCHANGED <<consec, debounce, last_cand>>
  BY <1>2 DEF Wait
<1>4. sum' = sum
  BY <1>1, AccRest
<1>5. Avg(0) = Mean(0) /\ Mean(0) \in Logit /\ Mean(0) \in Int /\ 0 \in Classes /\ N \in Nat /\ N > 1
  BY MeanIs, Sizes DEF MirrorInv
<1>6. Mean(0)' = Mean(0)
  BY <1>4 DEF Mean
<1>7. scan_c' \in 1 .. N - 1 /\ 1 \in Classes
  BY <1>3, <1>5 DEF Classes
<1>8. Leads(scan_c)'
  <2>1. \A j \in 0 .. 1 - 1 : j = 0
    OBVIOUS
  <2>2. 0 \in 0 .. 1 - 1
    OBVIOUS
  <2>3. Mean(0)' <= sm_val' /\ sm_val' = Mean(sm_idx)'
    BY <1>3, <1>5, <1>6
  <2> QED
    BY <1>3, <2>1, <2>2, <2>3 DEF Leads
<1>9. PhaseTypes'
  BY <1>1, <1>2, <1>3, <1>5, <1>7 DEF MirrorInv, Types, PhaseTypes, AccBusy
<1>10. Pending /\ Pending'
  BY <1>3 DEF Pending
<1> QED
  BY <1>3, <1>7, <1>8, <1>9, <1>10, PhaseStep

\* One more average is compared with the best.
LEMMA ScanNext ==
  ASSUME MirrorInv, PairTick, phase = "SCAN"
  PROVE  MirrorInv'
<1>1. /\ RamEdge /\ AccEdge(FALSE, Zeroes) /\ acc_busy_d' = AccBusy
      /\ Wait(FALSE) \/ Scan(FALSE) \/ Eval(FALSE)
  BY DEF PairTick, Tick, Edge, PhaseEdge
<1>2. Scan(FALSE)
  BY <1>1 DEF Wait, Eval
<1>3. acc = "IDLE" /\ ~pend /\ scan_c \in 1 .. N - 1 /\ Leads(scan_c)
  BY DEF MirrorInv, Control, Folding, Types, AccTypes, DecisionInv
<1>4. sum' = sum
  BY <1>1, <1>3, AccRest
<1>5. N \in Nat /\ N > 1 /\ scan_c \in Classes /\ sm_idx \in Classes /\ sm_val \in Int /\ sm_val \in Logit
  BY Sizes, Ranges DEF MirrorInv, Types, PhaseTypes
<1>6. Avg(scan_c) = Mean(scan_c) /\ \A k \in Classes : Mean(k) \in Logit /\ Mean(k) \in Int /\ Mean(k)' = Mean(k)
  <2>1. \A k \in Classes : Mean(k)' = Mean(k)
    BY <1>4 DEF Mean
  <2> QED
    BY <1>5, <2>1, MeanIs DEF MirrorInv
<1>7. /\ IF Mean(scan_c) > sm_val THEN sm_val' = Mean(scan_c) /\ sm_idx' = scan_c ELSE sm_val' = sm_val /\ sm_idx' = sm_idx
      /\ \/ scan_c = N - 1 /\ phase' = "EVAL" /\ scan_c' = scan_c
         \/ scan_c < N - 1 /\ scan_c' = scan_c + 1 /\ phase' = "SCAN"
      /\ pend' = FALSE /\ UNCHANGED <<consec, debounce, last_cand>>
  BY <1>2, <1>3, <1>6 DEF Scan
<1>8. PICK n : n = scan_c + 1 /\ n \in 2 .. N /\ n - 1 = scan_c
  BY <1>3, <1>5
<1>9. sm_idx \in 0 .. scan_c - 1 /\ sm_val = Mean(sm_idx)
      /\ \A j \in 0 .. scan_c - 1 : Mean(j) <= sm_val /\ (j < sm_idx => Mean(j) < sm_val)
  BY <1>3 DEF Leads
<1>10. Leads(n)'
  <2>1. sm_idx' \in 0 .. n - 1 /\ sm_idx' \in Classes
    BY <1>3, <1>5, <1>7, <1>8, <1>9
  <2>2. sm_val' = Mean(sm_idx')
    BY <1>7, <1>9
  <2>3. ASSUME NEW j \in 0 .. n - 1 PROVE Mean(j) <= sm_val' /\ (j < sm_idx' => Mean(j) < sm_val')
    <3>1. j \in Classes /\ Mean(j) \in Int /\ Mean(scan_c) \in Int
      <4>1. j \in Classes
        BY <1>5, <1>8 DEF Classes
      <4> QED
        BY <1>5, <1>6, <4>1
    <3>2. CASE j = scan_c
      BY <1>3, <1>5, <1>7, <1>9, <3>1, <3>2
    <3>3. CASE j # scan_c
      <4>1. j \in 0 .. scan_c - 1
        BY <1>3, <1>5, <1>8, <3>3
      <4>2. Mean(j) <= sm_val /\ (j < sm_idx => Mean(j) < sm_val)
        BY <1>9, <4>1
      <4> QED
        BY <1>5, <1>7, <3>1, <4>2
    <3> QED
      BY <3>2, <3>3
  <2>4. \A j \in 0 .. n - 1 : Mean(j)' = Mean(j)
    BY <1>4 DEF Mean
  <2>5. Mean(sm_idx)' = Mean(sm_idx')
    BY <1>4 DEF Mean
  <2> QED
    BY <2>1, <2>2, <2>3, <2>4, <2>5 DEF Leads
<1>11. (phase = "SCAN" => scan_c \in 1 .. N - 1 /\ Leads(scan_c))'
  <2>1. phase' = "SCAN" => scan_c' = n /\ n \in 1 .. N - 1
    BY <1>5, <1>7, <1>8
  <2> QED
    BY <1>10, <2>1 DEF Leads
<1>12. (phase = "EVAL" => Leads(N))'
  <2>1. phase' = "EVAL" => n = N
    BY <1>5, <1>7, <1>8
  <2> QED
    BY <1>10, <2>1 DEF Leads
<1>13. PhaseTypes'
  <2>1. scan_c' \in Classes /\ sm_idx' \in Classes /\ sm_val' \in Logit
    BY <1>5, <1>6, <1>7 DEF Classes
  <2> QED
    BY <1>1, <1>7, <2>1 DEF MirrorInv, Types, PhaseTypes, AccBusy
<1>14. Pending /\ Pending'
  BY <1>7 DEF Pending
<1> QED
  BY <1>3, <1>7, <1>11, <1>12, <1>13, <1>14, PhaseStep

\* The verdict of the device is that of the reference.
LEMMA VerdictIs ==
  ASSUME MirrorInv, Deciding
  PROVE  /\ Host!Verdict(Target) = [class |-> sm_idx, val |-> sm_val, votes |-> Votes]
         /\ Host!Qualifies(Host!Verdict(Target)) <=> Candidate
         /\ Host!RunLength(Target, Host!Verdict(Target)) = Run
         /\ Run \in 0 .. MAX_RUN
<1>1. phase = "EVAL" /\ Pending /\ acc = "IDLE" /\ Leads(N) /\ sum = Target.sums
      /\ win_hist = Target.win_hist /\ hist_fill = Target.fill
  BY DEF Deciding, Pending, MirrorInv, Control, Folding, Types, AccTypes, DecisionInv, FoldInv
<1>2. Types /\ sm_idx \in Classes /\ sm_val = Mean(sm_idx) /\ hist_fill \in 0 .. DEPTH /\ consec \in 0 .. MAX_RUN
      /\ last_cand \in Classes
  BY <1>1 DEF MirrorInv, Types, PhaseTypes, VoteTypes, Leads
<1>3. /\ Target.consec = consec /\ (consec # 0 => Target.last_cand = last_cand)
  BY TargetIs DEF MirrorInv, DecisionInv
<1> DEFINE av == [k \in Classes |-> Mean(k)]
<1>4. Host!Averages(Target) = av
  <2>1. Host!Averages(Target) = [k \in Classes |-> Signed(Average(Target.sums[k], DEPTH), DATA_W)]
    BY HostMath, Zenon DEF Host!Averages, Classes
  <2>2. \A k \in Classes : Signed(Average(Target.sums[k], DEPTH), DATA_W) = Mean(k)
    <3> TAKE k \in Classes
    <3>1. Avg(k) = Mean(k)
      BY <1>2, MeanIs
    <3> QED
      BY <1>1, <3>1 DEF Avg
  <2> QED
    BY <2>1, <2>2
<1>5. av \in [Classes -> Int] /\ \A k \in Classes : av[k] = Mean(k)
  BY <1>2, MeanIs
<1> HIDE DEF av
<1>6. Argmax(av) = sm_idx
  <2>1. \A j \in Classes : av[j] <= av[sm_idx] /\ (j < sm_idx => av[j] < av[sm_idx])
    BY <1>1, <1>2, <1>5 DEF Leads, Classes
  <2> QED
    BY <1>2, <1>5, <2>1, ArgmaxIs
<1>7. {d \in 0 .. Target.fill - 1 : Target.win_hist[d] = sm_idx} = {d \in 0 .. DEPTH - 1 : d < hist_fill /\ win_hist[d] = sm_idx}
  <2>1. Target.fill = hist_fill /\ Target.win_hist = win_hist
    BY <1>1
  <2>2. \A d : d \in 0 .. hist_fill - 1 <=> d \in 0 .. DEPTH - 1 /\ d < hist_fill
    BY <1>2, Sizes
  <2>3. {d \in 0 .. hist_fill - 1 : win_hist[d] = sm_idx} = {d \in 0 .. DEPTH - 1 : d < hist_fill /\ win_hist[d] = sm_idx}
    BY <2>2
  <2> QED
    BY <2>1, <2>3
<1>8. Host!Verdict(Target) = [class |-> sm_idx, val |-> sm_val, votes |-> Votes]
  <2>1. Host!Argmax(Host!Averages(Target)) = sm_idx
    BY <1>4, <1>6, HostMath
  <2>2. Host!Averages(Target)[sm_idx] = sm_val
    BY <1>2, <1>4, <1>5
  <2>3. Host!Verdict(Target) =
          [class |-> Host!Argmax(Host!Averages(Target)),
           val |-> Host!Averages(Target)[Host!Argmax(Host!Averages(Target))],
           votes |-> Host!Cardinality({d \in 0 .. Target.fill - 1 : Target.win_hist[d] = Host!Argmax(Host!Averages(Target))})]
    BY Zenon DEF Host!Verdict
  <2>4. Host!Verdict(Target) =
          [class |-> sm_idx, val |-> sm_val,
           votes |-> Cardinality({d \in 0 .. Target.fill - 1 : Target.win_hist[d] = sm_idx})]
    BY <2>1, <2>2, <2>3, HostMath, Zenon
  <2> QED
    BY <1>7, <2>4, Zenon DEF Votes
<1>9. PICK v : v = Host!Verdict(Target)
  OBVIOUS
<1>10. v.class = sm_idx /\ v.val = sm_val /\ v.votes = Votes
  BY <1>8, <1>9
<1>11. Host!Qualifies(v) <=> Candidate
  BY <1>10 DEF Host!Qualifies, Candidate
<1>12. Host!RunLength(Target, v) = Run
  <2>1. MAX_RUN \in Nat /\ consec \in Nat /\ (consec >= MAX_RUN <=> consec = MAX_RUN)
    BY <1>2, Sizes
  <2>2. CASE ~Candidate
    BY <1>11, <2>2, Zenon DEF Host!RunLength, Run
  <2>3. CASE Candidate
    <3>1. Host!RunLength(Target, v) =
            IF Target.consec # 0 /\ Target.last_cand = v.class
              THEN IF Target.consec >= MAX_RUN THEN Target.consec ELSE Target.consec + 1
              ELSE 1
      BY <1>11, <2>3, Zenon DEF Host!RunLength
    <3>2. Run = IF consec # 0 /\ last_cand = sm_idx THEN IF consec = MAX_RUN THEN consec ELSE consec + 1 ELSE 1
      BY <2>3, Zenon DEF Run
    <3>3. (Target.consec # 0 /\ Target.last_cand = v.class) <=> (consec # 0 /\ last_cand = sm_idx)
      BY <1>3, <1>10
    <3> QED
      BY <1>3, <2>1, <3>1, <3>2, <3>3
  <2> QED
    BY <2>2, <2>3
<1>13. Run \in 0 .. MAX_RUN
  BY <1>2, Sizes DEF Run
<1> QED
  BY <1>8, <1>9, <1>11, <1>12, <1>13

\* The device and the reference decide the same.
LEMMA DecideIs ==
  ASSUME MirrorInv, PairTick, Deciding
  PROVE  /\ Eval(FALSE) /\ RamEdge /\ AccEdge(FALSE, Zeroes) /\ UNCHANGED <<recent, win_hist, hist_fill, whead>>
         /\ acc_busy_d' = AccBusy
         /\ ref' = [Target EXCEPT !.last_cand = IF Candidate THEN sm_idx ELSE @,
                                  !.consec = IF Fire THEN 0 ELSE Run,
                                  !.debounce_cnt = IF Fire THEN DEBOUNCE ELSE IF @ > 0 THEN @ - 1 ELSE @]
         /\ evt' = IF Fire THEN Detection ELSE <<>>
         /\ calm' = IF Fire THEN 0 ELSE Min({calm + 1, CALM_MAX})
<1>1. /\ RamEdge /\ AccEdge(FALSE, Zeroes) /\ acc_busy_d' = AccBusy /\ UNCHANGED <<recent, win_hist, hist_fill, whead>>
      /\ Wait(FALSE) \/ Scan(FALSE) \/ Eval(FALSE)
  BY DEF PairTick, Tick, Edge, PhaseEdge, VoteEdge, voteVars
<1>2. Eval(FALSE)
  BY <1>1 DEF Wait, Scan, Deciding
<1>3. Host!kws_smooth_step(recent[1], Argmax(recent[1])) /\ calm' = IF Fire THEN 0 ELSE Min({calm + 1, CALM_MAX})
  BY DEF PairTick, Decide
<1>4. Target = Host!Folded(ref, recent[1], Argmax(recent[1]))
  BY DEF Target, Pending, Deciding
<1>5. PICK v : v = Host!Verdict(Target)
  OBVIOUS
<1>6. /\ v.class = sm_idx /\ v.val = sm_val /\ v.votes = Votes
      /\ (Host!Qualifies(v) <=> Candidate) /\ Host!RunLength(Target, v) = Run
  BY <1>5, VerdictIs
<1>7. Target.debounce_cnt = debounce
  BY TargetIs DEF MirrorInv, DecisionInv
<1>8. (Host!Qualifies(v) /\ Target.debounce_cnt = 0 /\ Host!RunLength(Target, v) >= MIN_CONSEC) <=> Fire
  BY <1>6, <1>7 DEF Fire
<1>9. /\ ref' = [Target EXCEPT
                   !.last_cand    = IF Host!Qualifies(v) THEN v.class ELSE @,
                   !.consec       = IF Host!Qualifies(v) /\ Target.debounce_cnt = 0 /\ Host!RunLength(Target, v) >= MIN_CONSEC
                                      THEN 0 ELSE Host!RunLength(Target, v),
                   !.debounce_cnt = IF Host!Qualifies(v) /\ Target.debounce_cnt = 0 /\ Host!RunLength(Target, v) >= MIN_CONSEC
                                      THEN DEBOUNCE ELSE IF @ > 0 THEN @ - 1 ELSE @]
      /\ evt' = IF Host!Qualifies(v) /\ Target.debounce_cnt = 0 /\ Host!RunLength(Target, v) >= MIN_CONSEC
                  THEN <<[class |-> v.class, conf |-> IF v.val < 0 THEN 0 ELSE v.val, votes |-> v.votes]>>
                  ELSE <<>>
  BY <1>3, <1>4, <1>5, Zenon DEF Host!kws_smooth_step
<1>10. evt' = IF Fire THEN Detection ELSE <<>>
  <2>1. CASE Fire
    BY <1>6, <1>8, <1>9, <2>1 DEF Detection
  <2>2. CASE ~Fire
    BY <1>8, <1>9, <2>2
  <2> QED
    BY <2>1, <2>2
<1>11. ref' = [Target EXCEPT !.last_cand = IF Candidate THEN sm_idx ELSE @,
                             !.consec = IF Fire THEN 0 ELSE Run,
                             !.debounce_cnt = IF Fire THEN DEBOUNCE ELSE IF @ > 0 THEN @ - 1 ELSE @]
  <2>1. v.class = sm_idx /\ Host!RunLength(Target, v) = Run
    BY <1>6
  <2>2. CASE Fire
    <3>1. Candidate /\ Host!Qualifies(v)
      BY <1>6, <2>2 DEF Fire
    <3> QED
      BY <1>8, <1>9, <2>1, <2>2, <3>1, Zenon
  <2>3. CASE ~Fire
    <3>1. CASE Candidate
      BY <1>6, <1>8, <1>9, <2>1, <2>3, <3>1, Zenon
    <3>2. CASE ~Candidate
      BY <1>6, <1>8, <1>9, <2>1, <2>3, <3>2, Zenon
    <3> QED
      BY <3>1, <3>2
  <2> QED
    BY <2>2, <2>3
<1> QED
  BY <1>1, <1>2, <1>3, <1>10, <1>11

\* The decision: what is compared afterwards is the same.
LEMMA EvalNext ==
  ASSUME MirrorInv, PairTick, Deciding
  PROVE  /\ MirrorInv'
         /\ detect' = evt' /\ consec' = ref'.consec /\ debounce' = ref'.debounce_cnt
         /\ consec' # 0 => last_cand' = ref'.last_cand
<1>1. /\ Eval(FALSE) /\ RamEdge /\ AccEdge(FALSE, Zeroes) /\ UNCHANGED <<recent, win_hist, hist_fill, whead>>
      /\ acc_busy_d' = AccBusy
      /\ ref' = [Target EXCEPT !.last_cand = IF Candidate THEN sm_idx ELSE @,
                               !.consec = IF Fire THEN 0 ELSE Run,
                               !.debounce_cnt = IF Fire THEN DEBOUNCE ELSE IF @ > 0 THEN @ - 1 ELSE @]
      /\ evt' = IF Fire THEN Detection ELSE <<>>
      /\ calm' = IF Fire THEN 0 ELSE Min({calm + 1, CALM_MAX})
  BY DecideIs
<1>2. phase = "EVAL" /\ Pending /\ acc = "IDLE" /\ ~pend
  BY DEF Deciding, Pending, MirrorInv, Control, Folding, Types, AccTypes
<1>3. UNCHANGED <<acc, acc_c, head, clr_addr, logits, sum, hist_raddr>> /\ Ram' = Ram /\ AccTypes' /\ RamTypes'
  BY <1>1, <1>2, AccRest
<1>4. /\ phase' = "IDLE" /\ pend' = FALSE /\ UNCHANGED <<scan_c, sm_idx, sm_val>>
      /\ last_cand' = IF Candidate THEN sm_idx ELSE last_cand
      /\ detect' = IF Fire THEN Detection ELSE <<>>
      /\ consec' = IF Fire THEN 0 ELSE Run
      /\ debounce' = IF Fire THEN DEBOUNCE ELSE IF debounce # 0 THEN debounce - 1 ELSE 0
  BY <1>1, <1>2 DEF Eval, NoDetection
<1>5. /\ Target \in HostStates /\ Target.debounce_cnt = debounce
      /\ (consec # 0 => Target.last_cand = last_cand)
  BY TargetIs DEF MirrorInv, DecisionInv
<1>6. /\ Run \in 0 .. MAX_RUN /\ sm_idx \in Classes /\ last_cand \in Classes /\ debounce \in 0 .. DEBOUNCE /\ DEBOUNCE \in Nat
      /\ MAX_RUN \in Nat
  BY VerdictIs, Sizes DEF MirrorInv, Types, PhaseTypes
<1> DEFINE lc == IF Candidate THEN sm_idx ELSE Target.last_cand
           cs == IF Fire THEN 0 ELSE Run
           db == IF Fire THEN DEBOUNCE ELSE IF debounce # 0 THEN debounce - 1 ELSE 0
<1>7. lc \in Classes \cup {-1} /\ cs \in 0 .. MAX_RUN /\ db \in 0 .. DEBOUNCE
  <2>1. Target.last_cand \in Classes \cup {-1}
    BY <1>5 DEF HostStates
  <2> QED
    BY <1>6, <2>1
<1>8. ref' = [Target EXCEPT !.last_cand = lc, !.consec = cs, !.debounce_cnt = db]
  <2>1. (IF Target.debounce_cnt > 0 THEN Target.debounce_cnt - 1 ELSE Target.debounce_cnt)
        = (IF debounce # 0 THEN debounce - 1 ELSE 0)
    BY <1>5, <1>6
  <2>2. (IF Fire THEN DEBOUNCE ELSE IF Target.debounce_cnt > 0 THEN Target.debounce_cnt - 1 ELSE Target.debounce_cnt) = db
    BY <2>1
  <2>3. ref' = [Target EXCEPT !.last_cand = IF Candidate THEN sm_idx ELSE Target.last_cand,
                              !.consec = IF Fire THEN 0 ELSE Run,
                              !.debounce_cnt = IF Fire THEN DEBOUNCE
                                ELSE IF Target.debounce_cnt > 0 THEN Target.debounce_cnt - 1 ELSE Target.debounce_cnt]
    BY <1>1, Zenon
  <2> QED
    BY <2>2, <2>3, Zenon
<1> HIDE DEF lc, cs, db
<1>9. /\ ref' \in HostStates /\ ref'.consec = cs /\ ref'.last_cand = lc /\ ref'.debounce_cnt = db
      /\ ref'.sums = Target.sums /\ ref'.hist = Target.hist /\ ref'.head = Target.head /\ ref'.win_hist = Target.win_hist
      /\ ref'.whead = Target.whead /\ ref'.fill = Target.fill
  BY <1>5, <1>7, <1>8 DEF HostStates
<1>10. ~Pending' /\ Target' = ref'
  BY <1>4 DEF Pending, Target
<1>11. Knows(Target, recent)'
  <2>1. Knows(Target, recent)
    BY DEF MirrorInv
  <2>2. Knows(ref', recent)
    BY <1>9, <2>1, Zenon DEF Knows
  <2> QED
    BY <1>1, <1>10, <2>2 DEF Knows
<1>12. consec' = cs /\ debounce' = db /\ (consec' # 0 => last_cand' = lc)
  <2>1. consec' # 0 => Candidate
    BY <1>4 DEF Run
  <2> QED
    BY <1>4, <2>1 DEF cs, db, lc
<1>13. calm' \in 0 .. CALM_MAX
  <2>1. calm \in 0 .. CALM_MAX /\ CALM_MAX \in Nat
    BY RecentMax DEF MirrorInv, Types, PairTypes
  <2>2. PICK a \in Nat : a = calm + 1
    BY <2>1
  <2>3. Min({a, CALM_MAX}) = Lesser(a, CALM_MAX)
    BY <2>1, MinMaxIs
  <2>4. Lesser(a, CALM_MAX) \in 0 .. CALM_MAX
    BY <2>1 DEF Lesser
  <2> QED
    BY <1>1, <2>1, <2>2, <2>3, <2>4
<1>14. Types'
  <2>1. PairTypes'
    BY <1>1, <1>9, <1>13 DEF MirrorInv, Types, PairTypes
  <2>2. VoteTypes'
    BY <1>1 DEF MirrorInv, Types, VoteTypes
  <2>3. last_cand' \in Classes /\ consec' \in 0 .. MAX_RUN /\ debounce' \in 0 .. DEBOUNCE
    BY <1>4, <1>6, <1>7, <1>12
  <2>4. PhaseTypes'
    BY <1>1, <1>4, <2>3 DEF MirrorInv, Types, PhaseTypes, AccBusy
  <2> QED
    BY <1>3, <2>1, <2>2, <2>4 DEF Types
<1>15. Control'
  BY <1>2, <1>3, <1>4, <1>10 DEF Control, Folding
<1>16. FoldInv'
  <2>1. (win_hist = Target.win_hist /\ hist_fill = Target.fill /\ whead = Target.whead)'
    BY <1>1, <1>9, <1>10 DEF MirrorInv, FoldInv
  <2>2. (/\ head = Target.head /\ sum = Target.sums
         /\ \A d \in Slots, k \in Classes : Ram[d * N + k] = Target.hist[d][k])'
    <3>1. head = Target.head /\ sum = Target.sums /\ \A d \in Slots, k \in Classes : Ram[d * N + k] = Target.hist[d][k]
      BY <1>2 DEF MirrorInv, FoldInv
    <3> QED
      BY <1>3, <1>9, <1>10, <3>1
  <2>3. ~Folding' /\ acc' = "IDLE"
    BY <1>2, <1>3 DEF Folding
  <2> QED
    BY <1>10, <2>1, <2>2, <2>3 DEF FoldInv
<1>17. DecisionInv'
  BY <1>4, <1>9, <1>12 DEF DecisionInv
<1> QED
  BY <1>1, <1>4, <1>9, <1>11, <1>12, <1>14, <1>15, <1>16, <1>17 DEF MirrorInv

-----------------------------------------------------------------------------
(* A result, and a reset. *)

\* A result is fed in: the fold starts, and the reference is behind by it.
LEMMA UpdateNext ==
  ASSUME MirrorInv, NEW l \in LOGITS, PairUpdate(l)
  PROVE  MirrorInv' /\ recent' = Newer(recent, l) /\ ~Pending /\ Pending' /\ UNCHANGED <<ref, consec, debounce, last_cand, calm>>
<1>1. /\ ~Busy /\ RamEdge /\ AccEdge(TRUE, l) /\ VoteEdge(TRUE, Argmax(l)) /\ acc_busy_d' = AccBusy
      /\ Wait(TRUE) \/ Scan(TRUE) \/ Eval(TRUE)
  BY DEF PairUpdate, Update, Edge, PhaseEdge
<1>2. acc = "IDLE" /\ phase = "IDLE" /\ ~pend /\ ~Pending /\ ~Deciding
  BY <1>1 DEF Busy, AccBusy, Pending, Deciding
<1>3. UNCHANGED <<ref, evt, calm>>
  BY <1>2 DEF PairUpdate, Decide
<1>4. l \in Results /\ Argmax(l) \in Classes
  <2>1. l \in Results
    BY Sizes
  <2> QED
    BY <2>1, ArgmaxType, Ranges DEF Results, Logit
<1>5. /\ acc' = "RD" /\ acc_c' = 0 /\ logits' = l /\ hist_wr' = NoWrite
      /\ UNCHANGED <<head, clr_addr, sum, hist_raddr>>
  BY <1>1, <1>2 DEF AccEdge, AccIdle, AccClr, AccRd, AccWait, AccUpd
<1>6. Ram' = Ram /\ RamTypes'
  BY <1>1, <1>5, RamNext DEF MirrorInv
<1>7. AccTypes'
  BY <1>4, <1>5, Sizes DEF MirrorInv, Types, AccTypes
<1>8. pend' = TRUE /\ phase' = "IDLE" /\ UNCHANGED <<sm_idx, sm_val, scan_c, consec, debounce, last_cand>>
  BY <1>1, <1>2 DEF Wait, Scan, Eval
<1>9. PhaseTypes'
  BY <1>1, <1>8 DEF MirrorInv, Types, PhaseTypes, AccBusy
<1>10. /\ win_hist' = [win_hist EXCEPT ![whead] = Argmax(l)] /\ whead' = (whead + 1) % DEPTH
       /\ hist_fill' = IF hist_fill # DEPTH THEN hist_fill + 1 ELSE hist_fill
  BY <1>1 DEF VoteEdge
<1>11. VoteTypes'
  <2>1. win_hist \in [Slots -> Classes] /\ hist_fill \in 0 .. DEPTH /\ whead \in Slots /\ DEPTH \in Nat \ {0}
    BY Sizes DEF MirrorInv, Types, VoteTypes
  <2>2. whead' \in Slots
    BY <1>10, <2>1 DEF Slots
  <2>3. hist_fill' \in 0 .. DEPTH
    BY <1>10, <2>1
  <2> QED
    BY <1>4, <1>10, <2>1, <2>2, <2>3 DEF VoteTypes
<1>12. recent \in Seq(Results) /\ Len(recent) \in Nat /\ ref \in HostStates /\ Knows(ref, recent) /\ Target = ref
  BY <1>2 DEF MirrorInv, Types, PairTypes, Target
<1>13. recent' = Newer(recent, l)
  <2>1. recent' = SubSeq(<<l>> \o recent, 1, Min({Len(recent) + 1, RECENT_MAX}))
    BY DEF PairUpdate
  <2>2. PICK a \in Int : a = Len(recent) + 1
    BY <1>12
  <2>3. Min({a, RECENT_MAX}) = Lesser(a, RECENT_MAX)
    BY RecentMax, MinMaxIs
  <2> QED
    BY <2>1, <2>2, <2>3 DEF Newer
<1>14. recent' \in Seq(Results) /\ Len(recent') <= RECENT_MAX /\ recent'[1] = l /\ recent' # <<>>
  <2>1. recent' \in Seq(Results) /\ Len(recent') = Lesser(Len(recent) + 1, RECENT_MAX) /\ recent'[1] = l
    BY <1>4, <1>12, <1>13, NewerIs
  <2>2. Len(recent') <= RECENT_MAX /\ Len(recent') >= 1
    BY <1>12, <2>1, RecentMax DEF Lesser
  <2> QED
    BY <2>1, <2>2
<1>15. PairTypes'
  BY <1>3, <1>14 DEF MirrorInv, Types, PairTypes
<1>16. Pending' /\ Target' = Host!Folded(ref, l, Argmax(l))
  BY <1>3, <1>8, <1>14 DEF Pending, Target
<1>17. PICK t : t = Target'
  OBVIOUS
<1>18. /\ t \in HostStates /\ Knows(t, recent')
       /\ \A k \in Classes : ref.sums[k] + l[k] - ref.hist[ref.head][k] \in SumRange
  BY <1>4, <1>12, <1>13, <1>16, <1>17, KnowsNext
<1>19. /\ \A d \in Slots : t.win_hist[d] = IF d = ref.whead THEN Argmax(l) ELSE ref.win_hist[d]
       /\ t.whead = (ref.whead + 1) % DEPTH
       /\ t.fill = IF ref.fill < DEPTH THEN ref.fill + 1 ELSE ref.fill
  BY <1>4, <1>12, <1>16, <1>17, FoldedIs
<1>20. Control'
  BY <1>5, <1>8, <1>14, <1>16 DEF Control, Folding
<1>21. FoldInv'
  <2>1. win_hist = ref.win_hist /\ hist_fill = ref.fill /\ whead = ref.whead /\ head = ref.head /\ sum = ref.sums
        /\ \A d \in Slots, k \in Classes : Ram[d * N + k] = ref.hist[d][k]
    BY <1>2, <1>12 DEF MirrorInv, FoldInv
  <2>2. win_hist' = t.win_hist
    <3>1. t.win_hist \in [Slots -> Classes] /\ win_hist \in [Slots -> Classes] /\ whead \in Slots
      BY <1>18 DEF HostStates, MirrorInv, Types, VoteTypes
    <3>2. win_hist' \in [Slots -> Classes] /\ \A d \in Slots : win_hist'[d] = IF d = whead THEN Argmax(l) ELSE win_hist[d]
      BY <1>4, <1>10, <3>1
    <3>3. \A d \in Slots : win_hist'[d] = t.win_hist[d]
      BY <1>19, <2>1, <3>2
    <3> QED
      BY <3>1, <3>2, <3>3
  <2>3. hist_fill' = t.fill /\ whead' = t.whead
    <3>1. hist_fill \in 0 .. DEPTH /\ DEPTH \in Nat
      BY Sizes DEF MirrorInv, Types, VoteTypes
    <3> QED
      BY <1>10, <1>19, <2>1, <3>1
  <2>4. (Pending => \A k \in Classes : Moved(k) \in SumRange)'
    BY <1>3, <1>14, <1>18 DEF Moved
  <2>5. (/\ head = ref.head
         /\ \A k \in Classes : sum[k] = IF k < acc_c THEN Target.sums[k] ELSE ref.sums[k]
         /\ \A d \in Slots, k \in Classes :
              Ram[d * N + k] = IF d = head /\ k < acc_c THEN logits[k] ELSE ref.hist[d][k])'
    <3>1. \A k \in Classes : ~(k < 0)
      BY Sizes DEF Classes
    <3> QED
      BY <1>3, <1>5, <1>6, <2>1, <3>1
  <2> QED
    BY <1>5, <1>17, <2>2, <2>3, <2>4, <2>5 DEF FoldInv
<1>22. Knows(Target, recent)'
  BY <1>17, <1>18 DEF Knows
<1>23. DecisionInv'
  BY <1>2, <1>3, <1>8 DEF MirrorInv, DecisionInv
<1> QED
  BY <1>2, <1>3, <1>6, <1>7, <1>8, <1>9, <1>11, <1>13, <1>15, <1>16, <1>20, <1>21, <1>22, <1>23 DEF MirrorInv, Types

\* The state after a reset, whatever the memory holds.
LEMMA CleanIs ==
  /\ AccReset(acc, acc_c, head, clr_addr, logits, sum, hist_wr, hist_raddr) /\ RamTypes
  /\ VoteReset(win_hist, hist_fill, whead)
  /\ PhaseReset(phase, pend, acc_busy_d, scan_c, sm_idx, sm_val, consec, debounce, last_cand, detect)
  /\ ref = Host!RefState0 /\ recent = <<>> /\ calm = CALM_MAX
  => MirrorInv /\ ~Pending
<1> SUFFICES ASSUME AccReset(acc, acc_c, head, clr_addr, logits, sum, hist_wr, hist_raddr), RamTypes,
                    VoteReset(win_hist, hist_fill, whead),
                    PhaseReset(phase, pend, acc_busy_d, scan_c, sm_idx, sm_val, consec, debounce, last_cand, detect),
                    ref = Host!RefState0, recent = <<>>, calm = CALM_MAX
             PROVE  MirrorInv /\ ~Pending
  OBVIOUS
<1>1. /\ acc = "CLR" /\ acc_c = 0 /\ head = 0 /\ clr_addr = 0 /\ logits = Zeroes /\ sum = Zeroes
      /\ hist_wr = NoWrite /\ hist_raddr = 0
  BY DEF AccReset
<1>2. win_hist = [d \in Slots |-> 0] /\ hist_fill = 0 /\ whead = 0
  BY DEF VoteReset, Slots
<1>3. /\ phase = "IDLE" /\ pend = FALSE /\ acc_busy_d = FALSE /\ scan_c = 0 /\ sm_idx = 0 /\ sm_val = 0
      /\ consec = 0 /\ debounce = 0 /\ last_cand = 0
  BY DEF PhaseReset
<1>4. Types
  <2>1. AccTypes
    BY <1>1, Sizes DEF AccTypes
  <2>2. VoteTypes
    BY <1>2, Sizes DEF VoteTypes
  <2>3. PhaseTypes
    <3>1. 0 \in Classes /\ 0 \in Logit /\ 0 \in 0 .. MAX_RUN /\ 0 \in 0 .. DEBOUNCE
      BY Sizes, Ranges
    <3> QED
      BY <1>3, <3>1 DEF PhaseTypes
  <2>4. PairTypes
    BY RefStateIs, RecentMax DEF PairTypes
  <2> QED
    BY <2>1, <2>2, <2>3, <2>4 DEF Types
<1>5. ~Pending /\ Target = ref
  BY <1>3 DEF Pending, Target
<1>6. Control
  BY <1>1, <1>3, <1>5 DEF Control, Folding
<1>7. FoldInv
  <2>1. \A a \in Addresses : ~(a < clr_addr)
    BY <1>1, Sizes DEF Addresses
  <2> QED
    BY <1>1, <1>2, <1>5, <2>1, RefStateIs DEF FoldInv, Folding
<1>8. Knows(Target, recent)
  <2>1. Len(recent) = 0 /\ Lesser(0, DEPTH) = 0 /\ SubSeq(recent, 1, 0) = <<>> /\ 1 .. 0 = {} /\ 0 .. DEPTH - 1 = Slots
    BY Sizes DEF Lesser, Slots
  <2>2. \A k \in Classes : Zeroes[k] = SumOver(<<>>, k)
    BY SumNone DEF Zeroes
  <2>3. /\ Target.fill = 0 /\ Target.head = 0 /\ Target.whead = 0 /\ Target.sums = Zeroes
        /\ \A d \in Slots : Target.hist[d] = Zeroes
    BY <1>5, RefStateIs
  <2>4. \A i \in 1 .. Target.fill : Target.hist[Slot(Target.head, i)] = recent[i] /\ Target.win_hist[Slot(Target.head, i)] = Argmax(recent[i])
    BY <2>1, <2>3
  <2>5. \A k \in Classes : Target.sums[k] = SumOver(SubSeq(recent, 1, Target.fill), k)
    BY <2>1, <2>2, <2>3
  <2>6. \A d \in Target.fill .. DEPTH - 1 : Target.hist[d] = Zeroes
    BY <2>1, <2>3
  <2>7. Target.fill = Lesser(Len(recent), DEPTH) /\ Target.whead = Target.head /\ (Target.fill < DEPTH => Target.head = Target.fill)
    BY <2>1, <2>3
  <2> QED
    BY <2>4, <2>5, <2>6, <2>7, Zenon DEF Knows
<1>9. DecisionInv
  BY <1>3, RefStateIs DEF DecisionInv
<1> QED
  BY <1>4, <1>5, <1>6, <1>7, <1>8, <1>9 DEF MirrorInv

\* The invariant holds at power-on.
LEMMA MirrorInit == PairInit => MirrorInv /\ ~Pending
<1> SUFFICES ASSUME PairInit PROVE MirrorInv /\ ~Pending
  OBVIOUS
<1>1. /\ SmoothInit /\ ref = Host!RefState0 /\ recent = <<>> /\ calm = CALM_MAX
  BY DEF PairInit
<1>2. RamTypes
  <2>1. PICK l \in LOGITS : hist = [a \in 0 .. HIST_D - 1 |-> l[a % N]]
    BY <1>1 DEF SmoothInit
  <2>2. l \in [Classes -> Logit] /\ N \in Nat /\ N > 1
    BY Sizes DEF Results
  <2>3. \A a \in Addresses : a % N \in Classes
    BY <2>2 DEF Addresses, Classes
  <2>4. hist \in [Addresses -> Logit]
    BY <2>1, <2>2, <2>3 DEF Addresses
  <2> QED
    BY <1>1, <2>4, Ranges DEF SmoothInit, RamTypes
<1> QED
  BY <1>1, <1>2, CleanIs DEF SmoothInit

\* A reset at any moment of a fold or a decision restores the invariant.
LEMMA ResetNext ==
  ASSUME MirrorInv, PairReset
  PROVE  MirrorInv' /\ ~Pending' /\ recent' = <<>> /\ consec' = 0 /\ debounce' = 0 /\ calm' = CALM_MAX
<1>1. /\ RamEdge
      /\ AccReset(acc', acc_c', head', clr_addr', logits', sum', hist_wr', hist_raddr')
      /\ VoteReset(win_hist', hist_fill', whead')
      /\ PhaseReset(phase', pend', acc_busy_d', scan_c', sm_idx', sm_val', consec', debounce', last_cand', detect')
      /\ ref' = Host!RefState0 /\ recent' = <<>> /\ calm' = CALM_MAX
  BY DEF PairReset, Reset, Host!kws_smooth_init
<1>2. RamTypes'
  BY <1>1, RamNext DEF MirrorInv
<1>3. consec' = 0 /\ debounce' = 0
  BY <1>1 DEF PhaseReset
<1>4. (/\ AccReset(acc, acc_c, head, clr_addr, logits, sum, hist_wr, hist_raddr) /\ RamTypes
       /\ VoteReset(win_hist, hist_fill, whead)
       /\ PhaseReset(phase, pend, acc_busy_d, scan_c, sm_idx, sm_val, consec, debounce, last_cand, detect)
       /\ ref = Host!RefState0 /\ recent = <<>> /\ calm = CALM_MAX)'
  BY <1>1, <1>2 DEF AccReset, VoteReset, PhaseReset, Host!RefState0
<1>5. (MirrorInv /\ ~Pending)'
  BY <1>4, CleanIs, PTL
<1> QED
  BY <1>1, <1>3, <1>5

-----------------------------------------------------------------------------
(* The smoother and its mirror. *)

\* A cycle in which no result is fed in.
LEMMA TickNext ==
  ASSUME MirrorInv, PairTick
  PROVE  MirrorInv'
<1>1. /\ acc \in {"IDLE", "CLR", "RD", "WAIT", "UPD"} /\ phase \in {"IDLE", "SCAN", "EVAL"}
      /\ pend \in BOOLEAN /\ acc_busy_d \in BOOLEAN
  BY DEF MirrorInv, Types, AccTypes, PhaseTypes
<1>2. CASE acc = "CLR"
  BY <1>2, ClearNext
<1>3. CASE acc \in {"RD", "WAIT"}
  BY <1>3, ReadNext
<1>4. CASE acc = "UPD"
  BY <1>4, FoldNext
<1>5. CASE phase = "SCAN"
  BY <1>5, ScanNext
<1>6. CASE phase = "EVAL"
  BY <1>6, EvalNext DEF Deciding
<1>7. CASE acc = "IDLE" /\ phase = "IDLE"
  <2>1. CASE pend /\ acc_busy_d
    BY <1>7, <2>1, StartNext
  <2>2. CASE ~(pend /\ acc_busy_d)
    BY <1>7, <2>2, QuietNext
  <2> QED
    BY <2>1, <2>2
<1> QED
  BY <1>1, <1>2, <1>3, <1>4, <1>5, <1>6, <1>7

\* Every step keeps the invariant.
LEMMA MirrorNext == MirrorInv /\ [PairNext]_pairVars => MirrorInv'
<1> SUFFICES ASSUME MirrorInv, [PairNext]_pairVars PROVE MirrorInv'
  OBVIOUS
<1>1. CASE PairTick
  BY <1>1, TickNext
<1>2. CASE PairReset
  BY <1>2, ResetNext
<1>3. CASE \E l \in LOGITS : PairUpdate(l)
  BY <1>3, UpdateNext
<1>4. CASE UNCHANGED pairVars
  <2>1. /\ UNCHANGED <<acc, acc_c, head, clr_addr, logits, sum, hist_wr, hist_raddr>>
        /\ UNCHANGED <<hist, hist_rdata>> /\ UNCHANGED <<win_hist, hist_fill, whead>>
        /\ UNCHANGED <<phase, pend, acc_busy_d, scan_c, sm_idx, sm_val, consec, debounce, last_cand>>
        /\ UNCHANGED <<ref, evt, recent, calm>>
    BY <1>4 DEF pairVars, smoothVars, accVars, ramVars, voteVars, phaseVars
  <2>2. Pending' <=> Pending
    BY <2>1 DEF Pending
  <2>3. Target' = Target /\ (\A k : Moved(k)' = Moved(k)) /\ Knows(Target, recent)'
    BY <2>1, <2>2, Steady DEF MirrorInv
  <2>4. Types'
    BY <2>1 DEF MirrorInv, Types, AccTypes, RamTypes, VoteTypes, PhaseTypes, PairTypes
  <2>5. Control'
    BY <2>1, <2>2 DEF MirrorInv, Control, Folding
  <2>6. Ram' = Ram
    BY <2>1 DEF Ram
  <2>7. FoldInv'
    BY <2>1, <2>2, <2>3, <2>6 DEF MirrorInv, FoldInv, Folding, FoldAddr
  <2>8. DecisionInv'
    BY <2>1 DEF MirrorInv, DecisionInv, Leads, Mean
  <2> QED
    BY <2>3, <2>4, <2>5, <2>7, <2>8 DEF MirrorInv
<1> QED
  BY <1>1, <1>2, <1>3, <1>4 DEF PairNext

\* The fold through the memory keeps pace with the reference.
THEOREM MirrorInvariant == PairSpec => []MirrorInv
<1>1. PairInit => MirrorInv
  BY MirrorInit
<1>2. MirrorInv /\ [PairNext]_pairVars => MirrorInv'
  BY MirrorNext
<1> QED
  BY <1>1, <1>2, PTL DEF PairSpec

\* The window of the newest result is what a smoother that knows the results holds.
LEMMA SumsAre ==
  ASSUME MirrorInv
  PROVE  SumsOfRecent
<1>1. TypeOK
  BY TypesOK DEF MirrorInv
<1>2. ASSUME Deciding, NEW k \in Classes PROVE sum[k] = SumOver(Window(0), k)
  <2>1. Pending /\ acc = "IDLE"
    BY <1>2 DEF Deciding, Pending, MirrorInv, Control, Folding, Types, AccTypes
  <2>2. sum = Target.sums
    BY <2>1 DEF MirrorInv, FoldInv
  <2>3. Target.sums[k] = SumOver(SubSeq(recent, 1, Target.fill), k) /\ Target.fill = Lesser(Len(recent), DEPTH)
    BY DEF MirrorInv, Knows
  <2>4. Len(recent) \in Nat /\ DEPTH \in Nat
    BY Sizes DEF MirrorInv, Types, PairTypes
  <2>5. Min({Len(recent), 0 + DEPTH}) = Lesser(Len(recent), DEPTH)
    <3>1. 0 + DEPTH = DEPTH
      BY <2>4
    <3> QED
      BY <2>4, <3>1, MinMaxIs
  <2>6. Window(0) = SubSeq(recent, 1, Lesser(Len(recent), DEPTH))
    <3>1. Window(0) = SubSeq(recent, 0 + 1, Min({Len(recent), 0 + DEPTH}))
      BY Zenon DEF Window
    <3>2. 0 + 1 = 1
      OBVIOUS
    <3> QED
      BY <2>5, <3>1, <3>2, Zenon
  <2> QED
    BY <2>2, <2>3, <2>6
<1> QED
  BY <1>1, <1>2 DEF SumsOfRecent

\* SumsOfRecent: when the smoother decides, each sum is that of the last DEPTH
\* results and of nothing else.
THEOREM SumsAreOfRecent == PairSpec => []SumsOfRecent
<1>1. MirrorInv => SumsOfRecent
  BY SumsAre
<1> QED
  BY <1>1, MirrorInvariant, PTL

\* MirrorsReference: every decision of the device is that of the reference.
THEOREM Mirrors == PairSpec => MirrorsReference
<1>1. MirrorInv /\ [PairNext]_pairVars =>
        [Deciding /\ recent' # <<>> =>
           /\ detect' = evt'
           /\ consec' = ref'.consec /\ debounce' = ref'.debounce_cnt
           /\ consec' # 0 => last_cand' = ref'.last_cand]_pairVars
  <2> SUFFICES ASSUME MirrorInv, PairNext, Deciding, recent' # <<>>
               PROVE  /\ detect' = evt'
                      /\ consec' = ref'.consec /\ debounce' = ref'.debounce_cnt
                      /\ consec' # 0 => last_cand' = ref'.last_cand
    BY Zenon
  <2>1. ~PairReset
    BY DEF PairReset
  <2>2. ~\E l \in LOGITS : PairUpdate(l)
    BY DEF PairUpdate, Update, Busy, Deciding
  <2>3. PairTick
    BY <2>1, <2>2 DEF PairNext
  <2> QED
    BY <2>3, EvalNext
<1> QED
  BY <1>1, MirrorInvariant, PTL DEF PairSpec, MirrorsReference

-----------------------------------------------------------------------------
(* The conditions of a decision, told from the results. *)

\* The slots of the last f results, each once.
LEMMA SlotsAre ==
  ASSUME NEW h \in Slots, NEW f \in 0 .. DEPTH, f < DEPTH => h = f
  PROVE  /\ \A i \in 1 .. f : Slot(h, i) \in Slots /\ Slot(h, i) < f
         /\ \A i \in 1 .. f, j \in 1 .. f : Slot(h, i) = Slot(h, j) => i = j
         /\ \A d \in Slots : d < f => \E i \in 1 .. f : Slot(h, i) = d
<1>1. PICK n \in Nat \ {0} : n = DEPTH
  BY Sizes
<1>2. h \in 0 .. n - 1 /\ f \in 0 .. n /\ (f < n => h = f)
  BY <1>1 DEF Slots
<1>3. \A i \in 1 .. f : Slot(h, i) \in Slots /\ Slot(h, i) < f
  <2> TAKE i \in 1 .. f
  <2>1. Slot(h, i) = (IF i <= h THEN h - i ELSE (h - i) + n)
    BY <1>1 DEF Slot
  <2>2. Slot(h, i) \in 0 .. n - 1 /\ Slot(h, i) < f
    BY <1>2, <2>1
  <2> QED
    BY <1>1, <2>2 DEF Slots
<1>4. \A i \in 1 .. f, j \in 1 .. f : Slot(h, i) = Slot(h, j) => i = j
  BY <1>1, <1>2 DEF Slot
<1>5. ASSUME NEW d \in Slots, d < f PROVE \E i \in 1 .. f : Slot(h, i) = d
  <2>1. d \in 0 .. n - 1
    BY <1>1 DEF Slots
  <2>2. CASE d < h
    <3>1. h - d \in 1 .. f /\ Slot(h, h - d) = d
      <4>1. h - d \in 1 .. f /\ h - d <= h /\ h - (h - d) = d
        BY <1>2, <1>5, <2>1, <2>2
      <4> QED
        BY <4>1 DEF Slot
    <3> QED
      BY <3>1
  <2>3. CASE ~(d < h)
    <3>1. PICK i \in Int : i = (h - d) + n
      BY <1>2, <2>1
    <3>2. i \in 1 .. f /\ ~(i <= h) /\ (h - i) + n = d
      BY <1>2, <1>5, <2>1, <2>3, <3>1
    <3> QED
      BY <1>1, <3>2 DEF Slot
  <2> QED
    BY <2>2, <2>3
<1> QED
  BY <1>3, <1>4, <1>5

\* The window of the newest result.
LEMMA WindowNow ==
  ASSUME MirrorInv
  PROVE  /\ Window(0) = SubSeq(recent, 1, Target.fill) /\ Target.fill \in 0 .. Len(recent)
         /\ Window(0) \in Seq(Results) /\ Len(Window(0)) = Target.fill
         /\ \A i \in 1 .. Target.fill : Window(0)[i] = recent[i]
<1>1. recent \in Seq(Results) /\ Len(recent) \in Nat /\ DEPTH \in Nat /\ Target.fill = Lesser(Len(recent), DEPTH)
  BY Sizes DEF MirrorInv, Types, PairTypes, Knows
<1>2. Min({Len(recent), 0 + DEPTH}) = Target.fill
  <2>1. 0 + DEPTH = DEPTH
    BY <1>1
  <2> QED
    BY <1>1, <2>1, MinMaxIs
<1>3. Window(0) = SubSeq(recent, 1, Target.fill)
  <2>1. Window(0) = SubSeq(recent, 0 + 1, Min({Len(recent), 0 + DEPTH}))
    BY Zenon DEF Window
  <2>2. 0 + 1 = 1
    OBVIOUS
  <2> QED
    BY <1>2, <2>1, <2>2, Zenon
<1>4. Target.fill \in 0 .. Len(recent)
  BY <1>1 DEF Lesser
<1> QED
  BY <1>1, <1>3, <1>4, FirstIs

\* The class the scan found, and the votes it has.
LEMMA WinnerNow ==
  ASSUME MirrorInv, Deciding
  PROVE  Winner(0) = sm_idx /\ Support(0) = Votes /\ (Holds(0) <=> Candidate)
<1>1. phase = "EVAL" /\ Pending /\ acc = "IDLE" /\ Leads(N) /\ win_hist = Target.win_hist /\ hist_fill = Target.fill
  BY DEF Deciding, Pending, MirrorInv, Control, Folding, Types, AccTypes, DecisionInv, FoldInv
<1>2. Types /\ sm_idx \in Classes /\ sm_val = Mean(sm_idx) /\ Target \in HostStates
  BY <1>1, TargetIs DEF MirrorInv, Types, PhaseTypes, Leads
<1>3. PICK f, h, w : f = Target.fill /\ h = Target.head /\ w = Window(0)
  OBVIOUS
<1>4. /\ w \in Seq(Results) /\ Len(w) = f /\ f \in 0 .. DEPTH /\ h \in Slots /\ (f < DEPTH => h = f)
      /\ \A i \in 1 .. f : w[i] = recent[i] /\ win_hist[Slot(h, i)] = Argmax(w[i])
  <2>1. f \in 0 .. DEPTH /\ h \in Slots /\ (f < DEPTH => h = f)
    BY <1>2, <1>3 DEF HostStates, MirrorInv, Knows
  <2>2. w \in Seq(Results) /\ Len(w) = f /\ \A i \in 1 .. f : w[i] = recent[i]
    BY <1>3, WindowNow
  <2>3. \A i \in 1 .. f : win_hist[Slot(h, i)] = Argmax(recent[i])
    BY <1>1, <1>3 DEF MirrorInv, Knows
  <2> QED
    BY <2>1, <2>2, <2>3
<1> DEFINE av == [c \in Classes |-> Mean(c)]
<1>5. MeanOver(w) = av
  <2>1. \A c \in Classes : SumOver(w, c) \div DEPTH = Mean(c)
    BY <1>3, SumsAre DEF SumsOfRecent, Mean
  <2>2. MeanOver(w) = [c \in Classes |-> SumOver(w, c) \div DEPTH]
    BY Zenon DEF MeanOver
  <2> QED
    BY <2>1, <2>2
<1>6. av \in [Classes -> Int] /\ \A k \in Classes : av[k] = Mean(k)
  BY <1>2, MeanIs
<1> HIDE DEF av
<1>7. Argmax(av) = sm_idx
  <2>1. \A j \in Classes : av[j] <= av[sm_idx] /\ (j < sm_idx => av[j] < av[sm_idx])
    BY <1>1, <1>2, <1>6 DEF Leads, Classes
  <2> QED
    BY <1>2, <1>6, <2>1, ArgmaxIs
<1>8. Winner(0) = sm_idx
  BY <1>3, <1>5, <1>7 DEF Winner
<1>9. MeanOver(w)[Winner(0)] = sm_val
  BY <1>2, <1>5, <1>6, <1>8
<1> DEFINE S == {i \in 1 .. f : Argmax(w[i]) = sm_idx}
           T == {d \in 0 .. DEPTH - 1 : d < hist_fill /\ win_hist[d] = sm_idx}
           b == [i \in S |-> Slot(h, i)]
<1>10. Support(0) = Cardinality(S)
  <2>1. DOMAIN w = 1 .. f
    BY <1>4
  <2>2. Support(0) = Cardinality({i \in DOMAIN w : Argmax(w[i]) = sm_idx})
    BY <1>3, <1>8, Zenon DEF Support
  <2> QED
    BY <2>1, <2>2
<1>11. Votes = Cardinality(T)
  BY Zenon DEF Votes
<1>12. /\ \A i \in 1 .. f : Slot(h, i) \in Slots /\ Slot(h, i) < f
       /\ \A i \in 1 .. f, j \in 1 .. f : Slot(h, i) = Slot(h, j) => i = j
       /\ \A d \in Slots : d < f => \E i \in 1 .. f : Slot(h, i) = d
  BY <1>4, SlotsAre
<1>13. Cardinality(T) = Cardinality(S)
  <2>1. b \in [S -> T] /\ \A i \in S : i \in 1 .. f /\ b[i] = Slot(h, i)
    <3> SUFFICES ASSUME NEW i \in S PROVE Slot(h, i) \in T
      OBVIOUS
    <3> QED
      BY <1>1, <1>3, <1>4, <1>12 DEF Slots
  <2>2. \A i \in S, j \in S : b[i] = b[j] => i = j
    BY <1>12, <2>1
  <2>3. \A d \in T : \E i \in S : b[i] = d
    <3> TAKE d \in T
    <3>1. PICK i \in 1 .. f : Slot(h, i) = d
      BY <1>1, <1>3, <1>12 DEF Slots
    <3>2. i \in S
      BY <1>4, <3>1
    <3> QED
      BY <2>1, <3>1, <3>2
  <2> HIDE DEF S, T, b
  <2>4. ExistsBijection(S, T)
    <3>1. DOMAIN b = S
      BY <2>1
    <3>2. b \in Bijection(S, T)
      BY <2>1, <2>2, <2>3, <3>1 DEF Bijection, Injection, IsInjective, Surjection
    <3> QED
      BY <3>2 DEF ExistsBijection
  <2>5. IsFiniteSet(S)
    <3>1. f \in Nat
      BY <1>4
    <3>2. IsFiniteSet(1 .. f)
      BY <3>1, FS_Interval
    <3>3. S \subseteq 1 .. f
      BY DEF S
    <3> QED
      BY <3>2, <3>3, FS_Subset
  <2> QED
    BY <2>4, <2>5, FS_Bijection
<1>14. Support(0) = Votes
  BY <1>10, <1>11, <1>13
<1>15. Holds(0) <=> Candidate
  BY <1>3, <1>8, <1>9, <1>14 DEF Holds, Candidate
<1> QED
  BY <1>8, <1>14, <1>15

-----------------------------------------------------------------------------
(* The run of one winner. *)

\* The results a decision still depends on move down by one when a result is fed in.
LEMMA WindowShift ==
  ASSUME recent \in Seq(Results), NEW l \in Results, recent' = Newer(recent, l), NEW j \in Nat, j + 1 < MIN_CONSEC
  PROVE  /\ Window(j + 1)' = Window(j)
         /\ Winner(j + 1)' = Winner(j) /\ (Holds(j + 1)' <=> Holds(j))
<1>1. PICK n \in Nat, m \in Nat, d \in Nat \ {0}, c \in Nat :
        n = Len(recent) /\ m = RECENT_MAX /\ d = DEPTH /\ c = MIN_CONSEC /\ m >= d + c - 1
  BY RecentMax
<1>2. PICK p : p = Lesser(n + 1, m)
  OBVIOUS
<1>3. /\ recent' \in Seq(Results) /\ Len(recent') = p
      /\ \A i \in 1 .. p - 1 : i \in 1 .. n /\ recent'[i + 1] = recent[i]
  <2>1. PICK u, r : u = recent' /\ r = recent
    OBVIOUS
  <2>2. r \in Seq(Results) /\ u = Newer(r, l)
    BY <2>1
  <2>3. /\ u \in Seq(Results) /\ Len(u) = Lesser(Len(r) + 1, RECENT_MAX)
        /\ \A i \in 1 .. Len(u) - 1 : i \in 1 .. Len(r) /\ u[i + 1] = r[i]
    BY <2>2, NewerIs
  <2>4. Len(r) = n /\ Len(u) = p
    BY <1>1, <1>2, <2>1, <2>3
  <2> QED
    BY <2>1, <2>3, <2>4
<1>4. PICK e : e = Lesser(n, j + d)
  OBVIOUS
<1>5. p \in Nat /\ e \in Nat /\ e <= n /\ e + 1 = Lesser(p, (j + 1) + d) /\ e + 1 <= p
  BY <1>1, <1>2, <1>4 DEF Lesser
<1>6. Window(j) = SubSeq(recent, j + 1, e)
  <2>1. Min({n, j + d}) = e
    BY <1>1, <1>4, MinMaxIs
  <2> QED
    BY <1>1, <2>1 DEF Window
<1>7. Window(j + 1)' = SubSeq(recent', (j + 1) + 1, e + 1)
  <2>1. PICK o \in Int : o = (j + 1) + d
    BY <1>1
  <2>2. Min({p, o}) = e + 1
    BY <1>5, <2>1, MinMaxIs
  <2>3. Window(j + 1)' = SubSeq(recent', (j + 1) + 1, Min({Len(recent'), (j + 1) + DEPTH}))
    BY DEF Window
  <2> QED
    BY <1>1, <1>3, <2>1, <2>2, <2>3
<1>8. SubSeq(recent', (j + 1) + 1, e + 1) = SubSeq(recent, j + 1, e)
  <2> DEFINE a == SubSeq(recent', (j + 1) + 1, e + 1)
             b == SubSeq(recent, j + 1, e)
  <2>1. Len(a) = Len(b) /\ Len(b) \in Nat /\ a \in Seq(Results) /\ b \in Seq(Results)
    BY <1>1, <1>3, <1>5
  <2>2. ASSUME NEW i \in 1 .. Len(b) PROVE a[i] = b[i]
    <3>1. PICK k \in 1 .. e : k = j + i /\ b[i] = recent[k]
      <4>1. j + i \in 1 .. e /\ b[i] = recent[j + i]
        BY <1>1, <1>5
      <4> QED
        BY <4>1
    <3>2. a[i] = recent'[k + 1]
      BY <1>1, <1>3, <1>5, <3>1
    <3>3. recent'[k + 1] = recent[k]
      BY <1>3, <1>5, <3>1
    <3> QED
      BY <3>1, <3>2, <3>3
  <2> HIDE DEF a, b
  <2>3. a = b
    BY <2>1, <2>2
  <2> QED
    BY <2>3 DEF a, b
<1>9. Window(j + 1)' = Window(j)
  BY <1>6, <1>7, <1>8
<1>10. MeanOver(Window(j + 1))' = MeanOver(Window(j))
  BY <1>9 DEF MeanOver
<1>11. Winner(j + 1)' = Winner(j)
  BY <1>10 DEF Winner
<1>12. Support(j + 1)' = Support(j)
  BY <1>9, <1>11 DEF Support
<1>13. Holds(j + 1)' <=> Holds(j)
  BY <1>10, <1>11, <1>12 DEF Holds
<1> QED
  BY <1>9, <1>11, <1>13

\* With the newest result, the run of the class it may be a detection of.
LEMMA RunNow ==
  ASSUME MirrorInv, RunInv, Deciding, Candidate
  PROVE  /\ Run \in 1 .. MAX_RUN /\ Run <= consec + 1
         /\ Len(recent) >= Lesser(Run, MIN_CONSEC) /\ Len(recent) >= 1
         /\ \A j \in 0 .. Lesser(Run, MIN_CONSEC) - 1 : Holds(j) /\ Winner(j) = sm_idx
         /\ Run < MIN_CONSEC => \/ Len(recent) = Run
                                \/ calm + 1 = Run
                                \/ ~(Holds(Run) /\ Winner(Run) = sm_idx)
<1>1. PICK c \in Nat, m \in Nat, x \in Nat \ {0}, n \in Nat, k \in Nat :
        c = consec /\ m = MIN_CONSEC /\ x = MAX_RUN /\ n = Len(recent) /\ k = calm /\ c <= x /\ m <= x
  BY Sizes, RecentMax DEF MirrorInv, Types, PhaseTypes, PairTypes
<1>2. n >= 1
  <2>1. recent # <<>> /\ recent \in Seq(Results)
    BY DEF MirrorInv, Control, Pending, Deciding, Types, PairTypes
  <2> QED
    BY <1>1, <2>1
<1>3. RunOf(c, 1)
  BY <1>1 DEF RunInv, Pending, Deciding
<1>4. /\ n >= Lesser(c + 1, m)
      /\ \A j \in 1 .. Lesser(c + 1, m) - 1 : Holds(j) /\ Winner(j) = last_cand
      /\ c + 1 < m => n = c + 1 \/ k = c \/ ~(Holds(c + 1) /\ (c = 0 \/ Winner(c + 1) = last_cand))
  BY <1>1, <1>3 DEF RunOf
<1>5. Holds(0) /\ Winner(0) = sm_idx
  BY WinnerNow
<1>6. Run = IF c # 0 /\ last_cand = sm_idx THEN IF c = x THEN c ELSE c + 1 ELSE 1
  BY <1>1 DEF Run
<1>7. PICK r \in Nat : r = Run
  BY <1>1, <1>6
<1>8. r \in 1 .. x /\ r <= c + 1
  BY <1>1, <1>6, <1>7
<1>9. n >= Lesser(r, m)
  BY <1>1, <1>2, <1>4, <1>6, <1>7 DEF Lesser
<1>10. ASSUME NEW j \in 0 .. Lesser(r, m) - 1 PROVE Holds(j) /\ Winner(j) = sm_idx
  <2>1. CASE j = 0
    BY <1>5, <2>1
  <2>2. CASE j # 0
    <3>1. r > 1
      BY <1>7, <1>1, <2>2 DEF Lesser
    <3>2. c # 0 /\ last_cand = sm_idx
      BY <1>6, <1>7, <3>1
    <3>3. j \in 1 .. Lesser(c + 1, m) - 1
      BY <1>1, <1>7, <1>8, <2>2 DEF Lesser
    <3> QED
      BY <1>4, <3>2, <3>3
  <2> QED
    BY <2>1, <2>2
<1>11. ASSUME r < m PROVE n = r \/ k + 1 = r \/ ~(Holds(r) /\ Winner(r) = sm_idx)
  <2>1. CASE c # 0 /\ last_cand = sm_idx
    <3>1. r = c + 1
      BY <1>1, <1>6, <1>7, <1>11, <2>1
    <3> QED
      BY <1>4, <1>11, <2>1, <3>1
  <2>2. CASE c = 0
    <3>1. r = c + 1
      BY <1>6, <1>7, <2>2
    <3> QED
      BY <1>4, <1>11, <2>2, <3>1
  <2>3. CASE c # 0 /\ last_cand # sm_idx
    <3>1. r = 1
      BY <1>6, <1>7, <2>3
    <3>2. 1 \in 1 .. Lesser(c + 1, m) - 1
      BY <1>1, <1>11, <2>3, <3>1 DEF Lesser
    <3> QED
      BY <1>4, <2>3, <3>1, <3>2
  <2> QED
    BY <2>1, <2>2, <2>3
<1> QED
  BY <1>1, <1>2, <1>7, <1>8, <1>9, <1>10, <1>11

\* DetectsExactly, from what is known of the run.
LEMMA DetectsAre ==
  ASSUME MirrorInv, RunInv
  PROVE  DetectsExactly
<1> SUFFICES ASSUME Deciding
             PROVE  Fire <=> /\ Len(recent) >= Max({MIN_CONSEC, 1})
                             /\ Holds(0)
                             /\ \A j \in 0 .. MIN_CONSEC - 1 : Holds(j) /\ Winner(j) = Winner(0)
                             /\ calm >= DEBOUNCE /\ calm >= MIN_CONSEC - 1
  BY DEF DetectsExactly
<1>1. PICK c \in Nat, m \in Nat, n \in Nat, k \in Nat, d \in Nat, a \in Nat :
        c = consec /\ m = MIN_CONSEC /\ n = Len(recent) /\ k = calm /\ d = DEBOUNCE /\ a = CALM_MAX /\ m <= a /\ d <= a
  BY Sizes, RecentMax DEF MirrorInv, Types, PhaseTypes, PairTypes
<1>2. (Holds(0) <=> Candidate) /\ Winner(0) = sm_idx
  BY WinnerNow
<1>3. /\ debounce = IF k < d THEN d - k ELSE 0
      /\ k >= Lesser(c, a)
  BY <1>1 DEF RunInv
<1>4. debounce = 0 <=> k >= d
  BY <1>1, <1>3
<1>5. Max({MIN_CONSEC, 1}) = IF m < 1 THEN 1 ELSE m
  <2>1. m \in Int /\ 1 \in Int
    BY <1>1
  <2>2. Max({m, 1}) = IF m < 1 THEN 1 ELSE m
    BY <2>1, MinMaxIs
  <2> QED
    BY <1>1, <2>2
<1>6. Fire <=> Candidate /\ debounce = 0 /\ Run >= m
  BY <1>1 DEF Fire
<1>7. CASE ~Candidate
  BY <1>2, <1>6, <1>7
<1>8. CASE Candidate
  <2>1. PICK r \in Nat \ {0} : r = Run
    BY <1>8, RunNow
  <2>2. /\ r <= c + 1 /\ n >= Lesser(r, m) /\ n >= 1
        /\ \A j \in 0 .. Lesser(r, m) - 1 : Holds(j) /\ Winner(j) = sm_idx
        /\ r < m => n = r \/ k + 1 = r \/ ~(Holds(r) /\ Winner(r) = sm_idx)
    BY <1>1, <1>8, <2>1, RunNow
  <2>3. CASE r >= m
    <3>1. Lesser(r, m) = m /\ k >= m - 1 /\ n >= (IF m < 1 THEN 1 ELSE m)
      BY <1>1, <1>3, <2>2, <2>3 DEF Lesser
    <3>2. \A j \in 0 .. MIN_CONSEC - 1 : Holds(j) /\ Winner(j) = Winner(0)
      BY <1>1, <1>2, <2>2, <3>1
    <3> QED
      BY <1>1, <1>2, <1>4, <1>5, <1>6, <1>8, <2>1, <2>3, <3>1, <3>2
  <2>4. CASE r < m
    <3>1. ~(Run >= m)
      BY <2>1, <2>4
    <3>2. r \in 0 .. m - 1 /\ (n = r => ~(n >= (IF m < 1 THEN 1 ELSE m))) /\ (k + 1 = r => ~(k >= m - 1))
      BY <1>1, <2>4
    <3>3. ASSUME Len(recent) >= Max({MIN_CONSEC, 1}), calm >= MIN_CONSEC - 1,
                 \A j \in 0 .. MIN_CONSEC - 1 : Holds(j) /\ Winner(j) = Winner(0)
          PROVE  FALSE
      <4>1. Holds(r) /\ Winner(r) = sm_idx
        BY <1>1, <1>2, <3>2, <3>3
      <4>2. n # r /\ k + 1 # r
        BY <1>1, <1>5, <3>2, <3>3
      <4> QED
        BY <2>2, <2>4, <4>1, <4>2
    <3> QED
      BY <1>6, <3>1, <3>3
  <2> QED
    BY <2>3, <2>4
<1> QED
  BY <1>7, <1>8

\* The run after a decision.
LEMMA RunEval ==
  ASSUME MirrorInv, RunInv, PairTick, Deciding
  PROVE  RunInv'
<1>1. PICK c \in Nat, m \in Nat, n \in Nat, k \in Nat, d \in Nat, a \in Nat, x \in Nat :
        /\ c = consec /\ m = MIN_CONSEC /\ n = Len(recent) /\ k = calm /\ d = DEBOUNCE /\ a = CALM_MAX /\ x = MAX_RUN
        /\ m <= a /\ d <= a /\ k <= a
  BY Sizes, RecentMax DEF MirrorInv, Types, PhaseTypes, PairTypes
<1>2. /\ Eval(FALSE) /\ recent' = recent /\ calm' = IF Fire THEN 0 ELSE Min({calm + 1, CALM_MAX})
  BY DecideIs
<1>3. ~pend /\ phase = "EVAL"
  BY DEF MirrorInv, Control, Deciding
<1>4. /\ phase' = "IDLE" /\ pend' = FALSE
      /\ last_cand' = IF Candidate THEN sm_idx ELSE last_cand
      /\ consec' = IF Fire THEN 0 ELSE Run
      /\ debounce' = IF Fire THEN DEBOUNCE ELSE IF debounce # 0 THEN debounce - 1 ELSE 0
  BY <1>2, <1>3 DEF Eval
<1>5. ~Pending'
  BY <1>4 DEF Pending
<1>6. \A j : Window(j)' = Window(j) /\ Winner(j)' = Winner(j) /\ (Holds(j)' <=> Holds(j))
  <2> TAKE j
  <2>1. Window(j)' = Window(j)
    BY <1>2 DEF Window
  <2>2. MeanOver(Window(j))' = MeanOver(Window(j))
    BY <2>1 DEF MeanOver
  <2>3. Winner(j)' = Winner(j)
    BY <2>2 DEF Winner
  <2>4. Support(j)' = Support(j)
    BY <2>1, <2>3 DEF Support
  <2> QED
    BY <2>1, <2>2, <2>3, <2>4 DEF Holds
<1>7. /\ debounce = IF k < d THEN d - k ELSE 0
      /\ k >= Lesser(c, a)
  BY <1>1 DEF RunInv
<1>8. ~Fire => calm' = IF k + 1 < a THEN k + 1 ELSE a
  <2>1. PICK e \in Int : e = k + 1
    BY <1>1
  <2>2. Min({e, a}) = IF e < a THEN e ELSE a
    BY <1>1, <2>1, MinMaxIs DEF Lesser
  <2> QED
    BY <1>1, <1>2, <2>1, <2>2
<1>9. debounce' = IF calm' < DEBOUNCE THEN DEBOUNCE - calm' ELSE 0
  BY <1>1, <1>2, <1>4, <1>7, <1>8
<1>10. Run \in Nat /\ Run <= c + 1 /\ (~Candidate => Run = 0)
  <2>1. CASE Candidate
    BY <1>1, <2>1, RunNow
  <2>2. CASE ~Candidate
    BY <1>1, <2>2 DEF Run
  <2> QED
    BY <2>1, <2>2
<1>11. calm' >= Lesser(consec', CALM_MAX)
  <2>1. CASE Fire
    BY <1>1, <1>2, <1>4, <2>1 DEF Lesser
  <2>2. CASE ~Fire
    <3>1. PICK r \in Nat : r = Run /\ r <= c + 1 /\ consec' = r
      BY <1>4, <1>10, <2>2
    <3> QED
      BY <1>1, <1>7, <1>8, <2>2, <3>1 DEF Lesser
  <2> QED
    BY <2>1, <2>2
<1>12. Len(recent)' = n /\ n >= 0
  BY <1>1, <1>2
<1>13. RunOf(consec, 0)'
  <2>1. CASE Fire \/ ~Candidate
    <3>1. consec' = 0 /\ (calm' = 0 \/ ~Holds(0))
      BY <1>2, <1>4, <1>10, <2>1, WinnerNow DEF Fire
    <3>2. Lesser(0 + 0, m) = 0 /\ 0 + 0 = 0 /\ \A j \in 0 .. 0 - 1 : FALSE
      BY <1>1 DEF Lesser
    <3>3. Len(recent') >= Lesser(consec' + 0, MIN_CONSEC)
      BY <1>1, <1>12, <3>1, <3>2
    <3>4. \A j \in 0 .. Lesser(consec' + 0, MIN_CONSEC) - 1 : FALSE
      BY <1>1, <3>1, <3>2
    <3>5. calm' = consec' \/ ~Holds(consec + 0)'
      BY <1>6, <3>1, <3>2
    <3> QED
      BY <3>3, <3>4, <3>5 DEF RunOf
  <2>2. CASE ~Fire /\ Candidate
    <3>1. PICK r \in Nat \ {0} : r = Run /\ consec' = r /\ last_cand' = sm_idx /\ r + 0 = r
      BY <1>4, <2>2, RunNow
    <3>2. /\ n >= Lesser(r, m)
          /\ \A j \in 0 .. Lesser(r, m) - 1 : Holds(j) /\ Winner(j) = sm_idx
          /\ r < m => n = r \/ k + 1 = r \/ ~(Holds(r) /\ Winner(r) = sm_idx)
      BY <1>1, <2>2, <3>1, RunNow
    <3>3. r < m /\ k + 1 = r => calm' = r
      BY <1>1, <1>8, <2>2
    <3>4. Len(recent') >= Lesser(consec' + 0, MIN_CONSEC)
      BY <1>1, <1>12, <3>1, <3>2
    <3>5. \A j \in 0 .. Lesser(consec' + 0, MIN_CONSEC) - 1 : Holds(j)' /\ Winner(j)' = last_cand'
      BY <1>1, <1>6, <3>1, <3>2
    <3>6. consec' + 0 < MIN_CONSEC => \/ Len(recent') = consec' + 0 \/ calm' = consec'
                                      \/ ~(Holds(consec + 0)' /\ Winner(consec + 0)' = last_cand')
      BY <1>1, <1>6, <1>12, <3>1, <3>2, <3>3
    <3> QED
      BY <3>1, <3>4, <3>5, <3>6 DEF RunOf
  <2> QED
    BY <2>1, <2>2
<1> QED
  BY <1>5, <1>9, <1>11, <1>13 DEF RunInv

\* The run when a result is fed in.
LEMMA RunUpdate ==
  ASSUME MirrorInv, RunInv, NEW l \in LOGITS, PairUpdate(l)
  PROVE  RunInv'
<1>1. PICK c \in Nat, m \in Nat, n \in Nat, p \in Nat :
        /\ c = consec /\ m = MIN_CONSEC /\ n = Len(recent) /\ p = RECENT_MAX /\ m <= p
  BY Sizes, RecentMax DEF MirrorInv, Types, PhaseTypes, PairTypes
<1>2. recent' = Newer(recent, l) /\ ~Pending /\ Pending' /\ UNCHANGED <<consec, debounce, last_cand, calm>>
  BY UpdateNext
<1>3. l \in Results /\ recent \in Seq(Results)
  BY Sizes DEF MirrorInv, Types, PairTypes
<1>4. Len(recent') = Lesser(n + 1, p)
  BY <1>1, <1>2, <1>3, NewerIs
<1>5. RunOf(c, 0)
  BY <1>1, <1>2 DEF RunInv
<1>6. /\ n >= Lesser(c, m)
      /\ \A j \in 0 .. Lesser(c, m) - 1 : Holds(j) /\ Winner(j) = last_cand
      /\ c < m => n = c \/ calm = c \/ ~(Holds(c) /\ (c = 0 \/ Winner(c) = last_cand))
  <2>1. c + 0 = c
    BY <1>1
  <2> QED
    BY <1>1, <1>5, <2>1 DEF RunOf
<1>7. \A j \in Nat : j + 1 < m => Winner(j + 1)' = Winner(j) /\ (Holds(j + 1)' <=> Holds(j))
  BY <1>1, <1>2, <1>3, WindowShift
<1>8. Len(recent') >= Lesser(c + 1, m)
  BY <1>1, <1>4, <1>6 DEF Lesser
<1>9. ASSUME NEW j \in 1 .. Lesser(c + 1, m) - 1 PROVE Holds(j)' /\ Winner(j)' = last_cand
  <2>1. PICK i \in 0 .. Lesser(c, m) - 1 : j = i + 1 /\ i + 1 < m /\ i \in Nat
    <3>1. j - 1 \in 0 .. Lesser(c, m) - 1 /\ j = (j - 1) + 1 /\ (j - 1) + 1 < m /\ j - 1 \in Nat
      BY <1>1 DEF Lesser
    <3> QED
      BY <3>1
  <2>2. Holds(i) /\ Winner(i) = last_cand
    BY <1>6, <2>1
  <2>3. Winner(i + 1)' = Winner(i) /\ (Holds(i + 1)' <=> Holds(i))
    BY <1>7, <2>1
  <2>4. Winner(j)' = Winner(i + 1)' /\ (Holds(j)' <=> Holds(i + 1)')
    BY <2>1
  <2> QED
    BY <2>2, <2>3, <2>4
<1>10. ASSUME c + 1 < m
       PROVE  Len(recent') = c + 1 \/ calm = c \/ ~(Holds(c + 1)' /\ (c = 0 \/ Winner(c + 1)' = last_cand))
  <2>1. n = c => Len(recent') = c + 1
    BY <1>1, <1>4, <1>10 DEF Lesser
  <2>2. Winner(c + 1)' = Winner(c) /\ (Holds(c + 1)' <=> Holds(c))
    BY <1>1, <1>7, <1>10
  <2>3. c < m
    BY <1>1, <1>10
  <2> QED
    BY <1>6, <2>1, <2>2, <2>3
<1>11. RunOf(consec, 1)'
  <2>1. c = consec' /\ last_cand' = last_cand /\ calm' = calm
    BY <1>1, <1>2
  <2>2. Len(recent') >= Lesser(consec' + 1, MIN_CONSEC)
    BY <1>1, <1>8, <2>1
  <2>3. \A j \in 1 .. Lesser(consec' + 1, MIN_CONSEC) - 1 : Holds(j)' /\ Winner(j)' = last_cand'
    BY <1>1, <1>9, <2>1
  <2>4. Holds(consec + 1)' <=> Holds(c + 1)'
    BY <2>1
  <2>5. Winner(consec + 1)' = Winner(c + 1)'
    BY <2>1
  <2>6. consec' + 1 < MIN_CONSEC =>
          Len(recent') = consec' + 1 \/ calm' = consec' \/ ~(Holds(consec + 1)' /\ (consec' = 0 \/ Winner(consec + 1)' = last_cand'))
    BY <1>1, <1>10, <2>1, <2>4, <2>5
  <2> QED
    BY <2>2, <2>3, <2>6 DEF RunOf
<1> QED
  BY <1>2, <1>11 DEF RunInv

\* The run in the cycles between.
LEMMA RunSame ==
  ASSUME RunInv, UNCHANGED <<recent, calm, consec, debounce, last_cand>>, Pending' <=> Pending
  PROVE  RunInv'
<1>1. \A j : Window(j)' = Window(j) /\ Winner(j)' = Winner(j) /\ (Holds(j)' <=> Holds(j))
  <2> TAKE j
  <2>1. Window(j)' = Window(j)
    BY DEF Window
  <2>2. MeanOver(Window(j))' = MeanOver(Window(j))
    BY <2>1 DEF MeanOver
  <2>3. Winner(j)' = Winner(j)
    BY <2>2 DEF Winner
  <2>4. Support(j)' = Support(j)
    BY <2>1, <2>3 DEF Support
  <2> QED
    BY <2>1, <2>2, <2>3, <2>4 DEF Holds
<1>2. \A c, o : RunOf(c, o)' <=> RunOf(c, o)
  BY <1>1 DEF RunOf
<1>3. PICK o : o = IF Pending THEN 1 ELSE 0
  OBVIOUS
<1>4. RunOf(consec, o)
  BY <1>3 DEF RunInv
<1>5. RunOf(consec, o)'
  <2>1. PICK c : c = consec
    OBVIOUS
  <2>2. RunOf(c, o)'
    BY <1>2, <1>4, <2>1
  <2> QED
    BY <2>1, <2>2
<1> QED
  BY <1>3, <1>5 DEF RunInv

\* The run after a reset.
LEMMA RunClean ==
  MirrorInv /\ ~Pending /\ recent = <<>> /\ consec = 0 /\ debounce = 0 /\ calm = CALM_MAX => RunInv
<1> SUFFICES ASSUME MirrorInv, ~Pending, recent = <<>>, consec = 0, debounce = 0, calm = CALM_MAX PROVE RunInv
  OBVIOUS
<1>1. /\ CALM_MAX \in Nat /\ DEBOUNCE \in Nat /\ ~(CALM_MAX < DEBOUNCE) /\ MIN_CONSEC \in Nat
      /\ Lesser(0, MIN_CONSEC) = 0 /\ Lesser(0, CALM_MAX) = 0
  BY RecentMax DEF Lesser
<1>2. 0 + 0 = 0 /\ 0 .. 0 - 1 = {} /\ Len(recent) = 0
  OBVIOUS
<1>3. RunOf(0, 0)
  BY <1>1, <1>2 DEF RunOf
<1> QED
  BY <1>1, <1>3 DEF RunInv

\* The run in a cycle without a decision.
LEMMA RunTick ==
  ASSUME MirrorInv, RunInv, PairTick, ~Deciding
  PROVE  RunInv'
<1>1. Wait(FALSE) \/ Scan(FALSE) \/ Eval(FALSE)
  BY DEF PairTick, Tick, Edge, PhaseEdge
<1>2. UNCHANGED <<recent, calm>>
  BY DEF PairTick, Decide
<1>3. UNCHANGED <<consec, debounce, last_cand>> /\ (Pending' <=> Pending)
  <2>1. CASE Wait(FALSE)
    BY <2>1 DEF Wait, Pending, MirrorInv, Types, PhaseTypes
  <2>2. CASE Scan(FALSE)
    BY <2>2 DEF Scan, Pending
  <2> QED
    BY <1>1, <2>1, <2>2 DEF Eval, Deciding
<1> QED
  BY <1>2, <1>3, RunSame

\* The two invariants hold at power-on.
LEMMA SmoothInitial == PairInit => SmoothInv
<1> SUFFICES ASSUME PairInit PROVE SmoothInv
  OBVIOUS
<1>1. MirrorInv /\ ~Pending
  BY MirrorInit
<1>2. recent = <<>> /\ consec = 0 /\ debounce = 0 /\ calm = CALM_MAX
  BY DEF PairInit, SmoothInit, PhaseReset
<1> QED
  BY <1>1, <1>2, RunClean DEF SmoothInv

\* Every step keeps the two invariants.
LEMMA SmoothStep == SmoothInv /\ [PairNext]_pairVars => SmoothInv'
<1> SUFFICES ASSUME MirrorInv, RunInv, [PairNext]_pairVars PROVE SmoothInv'
  BY DEF SmoothInv
<1>1. MirrorInv'
  BY MirrorNext
<1>2. CASE PairTick
  <2>1. CASE Deciding
    BY <1>2, <2>1, RunEval, <1>1 DEF SmoothInv
  <2>2. CASE ~Deciding
    BY <1>2, <2>2, RunTick, <1>1 DEF SmoothInv
  <2> QED
    BY <2>1, <2>2
<1>3. CASE PairReset
  <2>1. (MirrorInv /\ ~Pending /\ recent = <<>> /\ consec = 0 /\ debounce = 0 /\ calm = CALM_MAX)'
    <3>1. MirrorInv' /\ ~Pending' /\ recent' = <<>> /\ consec' = 0 /\ debounce' = 0 /\ calm' = CALM_MAX
      BY <1>3, ResetNext
    <3>2. CALM_MAX' = CALM_MAX
      BY DEF CALM_MAX
    <3> QED
      BY <3>1, <3>2
  <2>2. RunInv'
    BY <2>1, RunClean, PTL
  <2> QED
    BY <1>1, <2>2 DEF SmoothInv
<1>4. CASE \E l \in LOGITS : PairUpdate(l)
  BY <1>1, <1>4, RunUpdate DEF SmoothInv
<1>5. CASE UNCHANGED pairVars
  <2>1. UNCHANGED <<recent, calm, consec, debounce, last_cand, pend, phase>>
    BY <1>5 DEF pairVars, smoothVars, phaseVars
  <2>2. Pending' <=> Pending
    BY <2>1 DEF Pending
  <2> QED
    BY <1>1, <2>1, <2>2, RunSame DEF SmoothInv
<1> QED
  BY <1>2, <1>3, <1>4, <1>5 DEF PairNext

\* What the device counts is a run of the results themselves.
THEOREM SmoothInvariant == PairSpec => []SmoothInv
<1>1. PairInit => SmoothInv
  BY SmoothInitial
<1>2. SmoothInv /\ [PairNext]_pairVars => SmoothInv'
  BY SmoothStep
<1> QED
  BY <1>1, <1>2, PTL DEF PairSpec

\* DetectsExactly: the smoother detects exactly when its conditions have held for
\* the last MIN_CONSEC results with one winner, as told by the results alone.
THEOREM DetectsAsPromised == PairSpec => []DetectsExactly
<1>1. SmoothInv => DetectsExactly
  BY DetectsAre DEF SmoothInv
<1> QED
  BY <1>1, SmoothInvariant, PTL
=============================================================================
