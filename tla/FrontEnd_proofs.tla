-------------------------- MODULE FrontEnd_proofs --------------------------
(***************************************************************************)
(* What TLAPS proves of the front end, for every size, file and command    *)
(* line.                                                                   *)
(*                                                                         *)
(* RingInv is what holds of the microphone's ring of buffers, ChainInv of  *)
(* the numbers recorded in it: they are consecutive but for losses, across *)
(* the buffers too.  LoopInv says what frame and read-ahead hold in every  *)
(* state of the live loop: a piece of what was heard (MicInv) or of the    *)
(* file (WavInv), behind frames that overlap (SentInv).  FeatInv says what *)
(* the featurizer's records are cut from.                                  *)
(***************************************************************************)
EXTENDS FrontEnd, SequenceTheorems, TLAPS

-----------------------------------------------------------------------------
(* Sequences, of whatever they hold. *)

IsSeq(s) == s \in Seq({s[k] : k \in DOMAIN s})

\* A sequence over some set is a sequence.
LEMMA SeqIs == ASSUME NEW S, NEW s \in Seq(S) PROVE IsSeq(s)
BY SeqOfRange DEF IsSeq, Range

\* A sequence is the function of its elements.
LEMMA SeqFacts ==
  ASSUME NEW s, IsSeq(s)
  PROVE  /\ Len(s) \in Nat /\ DOMAIN s = 1 .. Len(s)
         /\ s = [k \in 1 .. Len(s) |-> s[k]]
         /\ s = <<>> <=> Len(s) = 0
<1> DEFINE S == {s[k] : k \in DOMAIN s}
<1>1. s \in Seq(S)
  BY DEF IsSeq
<1> HIDE DEF S
<1>2. Len(s) \in Nat /\ s \in [1 .. Len(s) -> S] /\ DOMAIN s = 1 .. Len(s)
  BY <1>1, LenProperties
<1>3. s = [k \in 1 .. Len(s) |-> s[k]]
  BY <1>2
<1>4. s = <<>> <=> Len(s) = 0
  BY <1>1, EmptySeq, SMT
<1> QED
  BY <1>2, <1>3, <1>4

\* A function on 1 .. n is a sequence of length n.
LEMMA FunIsSeq ==
  ASSUME NEW n \in Nat, NEW s, s = [k \in 1 .. n |-> s[k]]
  PROVE  IsSeq(s) /\ Len(s) = n
<1>1. DOMAIN s = 1 .. n
  OBVIOUS
<1> DEFINE S == {s[k] : k \in DOMAIN s}
<1>2. s \in [1 .. n -> S]
  BY <1>1
<1>3. s \in Seq(S)
  BY <1>2, SeqDef
<1>4. Len(s) \in Nat /\ DOMAIN s = 1 .. Len(s)
  BY <1>3, LenProperties
<1>5. Len(s) = n
  BY <1>1, <1>4
<1> QED
  BY <1>3, <1>5 DEF IsSeq

\* So is the empty one.
LEMMA EmptyIsSeq == IsSeq(<<>>) /\ Len(<<>>) = 0
<1>1. <<>> \in Seq({})
  BY EmptySeq
<1> QED
  BY <1>1, SeqIs, EmptySeq

\* What Append returns.
LEMMA AppendSeq ==
  ASSUME NEW s, IsSeq(s), NEW e
  PROVE  /\ IsSeq(Append(s, e)) /\ Len(Append(s, e)) = Len(s) + 1
         /\ \A k \in 1 .. Len(s) : Append(s, e)[k] = s[k]
         /\ Append(s, e)[Len(s) + 1] = e
<1> DEFINE S == {s[k] : k \in DOMAIN s}
           T == S \cup {e}
<1>1. s \in Seq(S)
  BY DEF IsSeq
<1>2. e \in T /\ S \subseteq T
  OBVIOUS
<1> HIDE DEF S, T
<1>3. s \in Seq(T)
  BY <1>1, <1>2, SeqMonotonic
<1>4. /\ Append(s, e) \in Seq(T) /\ Len(Append(s, e)) = Len(s) + 1
      /\ \A k \in 1 .. Len(s) : Append(s, e)[k] = s[k]
      /\ Append(s, e)[Len(s) + 1] = e
  BY <1>2, <1>3, AppendProperties
<1> QED
  BY <1>4, SeqIs

\* What concatenation returns.
LEMMA ConcatSeq ==
  ASSUME NEW s, IsSeq(s), NEW t, IsSeq(t)
  PROVE  /\ IsSeq(s \o t) /\ Len(s \o t) = Len(s) + Len(t)
         /\ \A k \in 1 .. Len(s) : (s \o t)[k] = s[k]
         /\ \A k \in 1 .. Len(t) : (s \o t)[Len(s) + k] = t[k]
<1> DEFINE S == {s[k] : k \in DOMAIN s}
           T == {t[k] : k \in DOMAIN t}
           U == S \cup T
<1>1. s \in Seq(S) /\ t \in Seq(T)
  BY DEF IsSeq
<1>2. S \subseteq U /\ T \subseteq U
  OBVIOUS
<1> HIDE DEF S, T, U
<1>3. s \in Seq(U) /\ t \in Seq(U)
  BY <1>1, <1>2, SeqMonotonic
<1>4. /\ s \o t \in Seq(U) /\ Len(s \o t) = Len(s) + Len(t)
      /\ \A k \in 1 .. Len(s) + Len(t) :
           (s \o t)[k] = IF k <= Len(s) THEN s[k] ELSE t[k - Len(s)]
  BY <1>3, ConcatProperties
<1>5. Len(s) \in Nat /\ Len(t) \in Nat
  BY <1>3, LenProperties
<1>6. \A k \in 1 .. Len(s) : (s \o t)[k] = s[k]
  BY <1>4, <1>5
<1>7. \A k \in 1 .. Len(t) : (s \o t)[Len(s) + k] = t[k]
  BY <1>4, <1>5
<1> QED
  BY <1>4, <1>6, <1>7, SeqIs

\* What SubSeq returns, of any function, within its domain or not.
LEMMA PartSeq ==
  ASSUME NEW s, NEW m \in Int, NEW n \in Int
  PROVE  /\ IsSeq(SubSeq(s, m, n))
         /\ Len(SubSeq(s, m, n)) = IF m <= n THEN (n - m) + 1 ELSE 0
         /\ \A k \in 1 .. (n - m) + 1 : SubSeq(s, m, n)[k] = s[(m + k) - 1]
<1> DEFINE S == {s[i] : i \in m .. n}
<1>1. \A i \in m .. n : s[i] \in S
  OBVIOUS
<1> HIDE DEF S
<1>2. /\ SubSeq(s, m, n) \in Seq(S)
      /\ Len(SubSeq(s, m, n)) = (IF m <= n THEN n - m + 1 ELSE 0)
      /\ \A k \in 1 .. n - m + 1 : SubSeq(s, m, n)[k] = s[m + k - 1]
  BY <1>1, SubSeqProperties
<1>3. \A k \in 1 .. (n - m) + 1 : k \in 1 .. n - m + 1 /\ m + k - 1 = (m + k) - 1
  OBVIOUS
<1> QED
  BY <1>2, <1>3, SeqIs

\* Sequences of the same elements are the same.
LEMMA SameSeq ==
  ASSUME NEW s, IsSeq(s), NEW t, IsSeq(t), Len(s) = Len(t),
         \A k \in 1 .. Len(s) : s[k] = t[k]
  PROVE  s = t
<1>1. /\ s = [k \in 1 .. Len(s) |-> s[k]]
      /\ t = [k \in 1 .. Len(t) |-> t[k]]
  BY SeqFacts
<1>2. [k \in 1 .. Len(s) |-> s[k]] = [k \in 1 .. Len(t) |-> t[k]]
  BY Zenon
<1> QED
  BY <1>1, <1>2, Zenon

\* The number of a sample of the microphone.
LEMMA HeardNumber == \A n : Number(Heard(n)) = n
<1> TAKE n
<1>1. (CHOOSE o \in Heard(n) : TRUE) \in Heard(n)
  BY DEF Heard
<1>2. (CHOOSE o \in Heard(n) : TRUE) = <<"mic", n>>
  BY <1>1 DEF Heard
<1>3. Number(Heard(n)) = (CHOOSE o \in Heard(n) : TRUE)[2]
  BY Zenon DEF Number
<1>4. <<"mic", n>>[2] = n
  OBVIOUS
<1> QED
  BY <1>2, <1>3, <1>4, Zenon

-----------------------------------------------------------------------------
(* The inductive invariant of the microphone's ring. *)

\* The k-th buffer of the ring, counted from the one being read, and how many
\* are done.
RingOf(c, k) == (c + (k - 1)) % MIC_N_BUF
Ring(k) == RingOf(cur_buf, k)
Full == MIC_N_BUF - Len(queue)

RingType ==
  /\ cur_buf \in Buffers /\ cur_off \in 0 .. MIC_BUF_LEN - 1
  /\ mic_buf \in [Buffers -> Seq(Nat)] /\ done \in [Buffers -> BOOLEAN]
  /\ queue \in Seq(Buffers) /\ Len(queue) <= MIC_N_BUF
  /\ heard \in Nat

\* First the buffers that are done, all full; then the driver's, of which only the
\* first may hold samples; reading has begun only of one that is done.
RingOrder ==
  /\ \A j \in 1 .. Len(queue) : queue[j] = Ring(Full + j)
  /\ \A k \in 1 .. MIC_N_BUF : done[Ring(k)] <=> k <= Full
  /\ \A k \in 1 .. MIC_N_BUF :
       /\ k <= Full => Len(mic_buf[Ring(k)]) = MIC_BUF_LEN
       /\ k = Full + 1 => Len(mic_buf[Ring(k)]) < MIC_BUF_LEN
       /\ k > Full + 1 => mic_buf[Ring(k)] = <<>>
  /\ cur_off > 0 => Full > 0

RingInv == RingType /\ RingOrder

\* b is heard next after a, but for what is lost.
Follows(a, b) == a < b /\ a + 1 .. b - 1 \subseteq lost

\* Nothing but losses since a.
Latest(a) == a <= heard /\ a + 1 .. heard \subseteq lost

\* In a buffer, from a buffer to the next, and at the end of what is recorded.
ChainInv ==
  /\ \A b \in Buffers : \A j \in 1 .. Len(mic_buf[b]) : mic_buf[b][j] \in 1 .. heard
  /\ \A b \in Buffers : \A j \in 1 .. Len(mic_buf[b]) - 1 : Follows(mic_buf[b][j], mic_buf[b][j + 1])
  /\ \A k \in 1 .. MIC_N_BUF - 1 :
       mic_buf[Ring(k + 1)] # <<>> => Follows(mic_buf[Ring(k)][MIC_BUF_LEN], mic_buf[Ring(k + 1)][1])
  /\ \A k \in 1 .. MIC_N_BUF :
       mic_buf[Ring(k)] # <<>> /\ (k < MIC_N_BUF => mic_buf[Ring(k + 1)] = <<>>)
         => Latest(mic_buf[Ring(k)][Len(mic_buf[Ring(k)])])

\* What is read next after a.
NextIs(a) ==
  IF cur_off > 0 THEN a = mic_buf[cur_buf][cur_off]
  ELSE IF mic_buf[cur_buf] # <<>> THEN Follows(a, mic_buf[cur_buf][1])
  ELSE Latest(a)

\* The ring is turned by one buffer at a time.
LEMMA RingTurns ==
  ASSUME NEW c \in Buffers
  PROVE  /\ \A k \in 1 .. MIC_N_BUF : RingOf(c, k) \in Buffers
         /\ \A k, l \in 1 .. MIC_N_BUF : RingOf(c, k) = RingOf(c, l) => k = l
         /\ \A b \in Buffers : \E k \in 1 .. MIC_N_BUF : RingOf(c, k) = b
         /\ RingOf(c, 1) = c
         /\ (c + 1) % MIC_N_BUF \in Buffers
         /\ \A k \in 1 .. MIC_N_BUF - 1 : RingOf((c + 1) % MIC_N_BUF, k) = RingOf(c, k + 1)
         /\ RingOf((c + 1) % MIC_N_BUF, MIC_N_BUF) = c
<1> DEFINE n == MIC_N_BUF
           d == (c + 1) % n
           At(x) == IF x < n THEN x ELSE x - n
<1>1. n \in Nat /\ n > 0 /\ c \in 0 .. n - 1
  BY MicAssumption DEF Buffers
<1>2. \A x \in 0 .. n + n - 1 : x % n = At(x)
  <2> SUFFICES ASSUME NEW h \in Nat, h > 0, NEW x \in 0 .. h + h - 1
               PROVE  x % h = IF x < h THEN x ELSE x - h
    BY <1>1
  <2> QED
    OBVIOUS
<1>3. d = At(c + 1)
  BY <1>1, <1>2
<1>4. d \in 0 .. n - 1
  BY <1>1, <1>3
<1>5. \A e \in 0 .. n - 1 : \A k \in 1 .. n : RingOf(e, k) = At(e + (k - 1))
  BY <1>1, <1>2 DEF RingOf
<1> HIDE DEF n, d
<1>6. \A k \in 1 .. n : RingOf(c, k) \in 0 .. n - 1
  BY <1>1, <1>5
<1>7. \A k, l \in 1 .. n : RingOf(c, k) = RingOf(c, l) => k = l
  BY <1>1, <1>5
<1>8. ASSUME NEW b \in 0 .. n - 1
      PROVE  \E k \in 1 .. n : RingOf(c, k) = b
  <2>1. CASE b >= c
    <3>1. (b - c) + 1 \in 1 .. n /\ RingOf(c, (b - c) + 1) = b
      BY <1>1, <1>5, <2>1
    <3> QED
      BY <3>1
  <2>2. CASE b < c
    <3>1. ((b + n) - c) + 1 \in 1 .. n /\ RingOf(c, ((b + n) - c) + 1) = b
      BY <1>1, <1>5, <2>2
    <3> QED
      BY <3>1
  <2> QED
    BY <1>1, <2>1, <2>2
<1>9. RingOf(c, 1) = c
  BY <1>1, <1>5
<1>10. \A k \in 1 .. n - 1 : RingOf(d, k) = RingOf(c, k + 1)
  BY <1>1, <1>3, <1>4, <1>5
<1>11. RingOf(d, n) = c
  BY <1>1, <1>3, <1>4, <1>5
<1> QED
  BY <1>4, <1>6, <1>7, <1>8, <1>9, <1>10, <1>11 DEF n, d, Buffers

\* mic_open hands all buffers, empty, to the driver in order.
LEMMA RingInit == MicOpen => RingInv
<1> SUFFICES ASSUME MicOpen PROVE RingInv
  OBVIOUS
<1>1. MIC_N_BUF \in Nat /\ MIC_N_BUF > 0 /\ MIC_BUF_LEN \in Nat /\ MIC_BUF_LEN > 0
  BY MicAssumption
<1>2. 0 \in Buffers /\ \A k \in 1 .. MIC_N_BUF : k - 1 \in Buffers
  BY <1>1 DEF Buffers
<1>3. queue = [k \in 1 .. MIC_N_BUF |-> k - 1]
  BY DEF MicOpen
<1>4. queue = [k \in 1 .. MIC_N_BUF |-> queue[k]]
  BY <1>3
<1>5. IsSeq(queue) /\ Len(queue) = MIC_N_BUF
  BY <1>1, <1>4, FunIsSeq
<1>6. queue \in [1 .. MIC_N_BUF -> Buffers]
  BY <1>2, <1>3
<1>7. queue \in Seq(Buffers)
  BY <1>1, <1>6, SeqDef
<1>8. Full = 0
  BY <1>1, <1>5 DEF Full
<1>9. \A k \in 1 .. MIC_N_BUF : Ring(k) = k - 1
  <2> SUFFICES ASSUME NEW h \in Nat, h > 0, NEW k \in 1 .. h
               PROVE  (0 + (k - 1)) % h = k - 1
    BY <1>1 DEF Ring, RingOf, MicOpen
  <2> QED
    OBVIOUS
<1>10. mic_buf = [b \in Buffers |-> <<>>] /\ done = [b \in Buffers |-> FALSE]
  BY DEF MicOpen
<1>11. <<>> \in Seq(Nat) /\ Len(<<>>) = 0
  BY EmptySeq
<1>12. RingType
  BY <1>1, <1>2, <1>5, <1>7, <1>10, <1>11 DEF RingType, MicOpen
<1>13. \A k \in 1 .. MIC_N_BUF : ~done[Ring(k)] /\ mic_buf[Ring(k)] = <<>>
  BY <1>2, <1>9, <1>10
<1>14. \A j \in 1 .. Len(queue) : queue[j] = Ring(Full + j)
  BY <1>1, <1>3, <1>5, <1>8, <1>9
<1>15. cur_off = 0
  BY DEF MicOpen
<1>16. RingOrder
  BY <1>1, <1>8, <1>11, <1>13, <1>14, <1>15 DEF RingOrder
<1> QED
  BY <1>12, <1>16 DEF RingInv

\* What the invariant says in a few facts.
LEMMA RingFacts ==
  RingInv =>
    /\ MIC_N_BUF \in Nat /\ MIC_N_BUF > 0 /\ MIC_BUF_LEN \in Nat /\ MIC_BUF_LEN > 0
    /\ Full \in 0 .. MIC_N_BUF /\ Len(queue) \in Nat /\ Full = MIC_N_BUF - Len(queue)
    /\ cur_off \in 0 .. MIC_BUF_LEN - 1 /\ heard \in Nat
    /\ \A b \in Buffers : mic_buf[b] \in Seq(Nat) /\ Len(mic_buf[b]) \in Nat
                          /\ (mic_buf[b] = <<>> <=> Len(mic_buf[b]) = 0)
    /\ \A k \in 1 .. MIC_N_BUF : Ring(k) \in Buffers
    /\ \A k, l \in 1 .. MIC_N_BUF : Ring(k) = Ring(l) => k = l
    /\ \A b \in Buffers : \E k \in 1 .. MIC_N_BUF : Ring(k) = b
    /\ Ring(1) = cur_buf
<1> SUFFICES ASSUME RingInv
             PROVE  RingFacts!2
  OBVIOUS
<1>1. MIC_N_BUF \in Nat /\ MIC_N_BUF > 0 /\ MIC_BUF_LEN \in Nat /\ MIC_BUF_LEN > 0
  BY MicAssumption
<1>2. RingType
  BY DEF RingInv
<1>3. Len(queue) \in Nat
  BY <1>2, LenProperties DEF RingType
<1>4. Full \in 0 .. MIC_N_BUF /\ Full = MIC_N_BUF - Len(queue)
  BY <1>1, <1>2, <1>3 DEF RingType, Full
<1>5. \A b \in Buffers : mic_buf[b] \in Seq(Nat)
  BY <1>2 DEF RingType
<1>6. \A b \in Buffers : Len(mic_buf[b]) \in Nat /\ (mic_buf[b] = <<>> <=> Len(mic_buf[b]) = 0)
  BY <1>5, EmptySeq, LenProperties
<1>7. cur_off \in 0 .. MIC_BUF_LEN - 1 /\ heard \in Nat /\ cur_buf \in Buffers
  BY <1>2 DEF RingType
<1>8. /\ \A k \in 1 .. MIC_N_BUF : Ring(k) \in Buffers
      /\ \A k, l \in 1 .. MIC_N_BUF : Ring(k) = Ring(l) => k = l
      /\ \A b \in Buffers : \E k \in 1 .. MIC_N_BUF : Ring(k) = b
      /\ Ring(1) = cur_buf
  BY <1>7, RingTurns DEF Ring
<1> QED
  BY <1>1, <1>3, <1>4, <1>5, <1>6, <1>7, <1>8

-----------------------------------------------------------------------------
(* The driver records a sample. *)

\* Either it is lost, or it goes to the first of the driver's buffers.
LEMMA HearFacts ==
  ASSUME RingInv, MicHear
  PROVE  /\ heard' = heard + 1 /\ cur_buf' = cur_buf /\ cur_off' = cur_off
         /\ \/ /\ Full = MIC_N_BUF /\ lost' = lost \cup {heard + 1}
               /\ mic_buf' = mic_buf /\ done' = done /\ queue' = queue
            \/ /\ Full < MIC_N_BUF /\ lost' = lost
               /\ mic_buf' = [mic_buf EXCEPT ![Ring(Full + 1)] = Append(@, heard + 1)]
               /\ \/ /\ Len(mic_buf[Ring(Full + 1)]) + 1 = MIC_BUF_LEN
                     /\ done' = [done EXCEPT ![Ring(Full + 1)] = TRUE]
                     /\ queue' = Tail(queue) /\ queue # <<>>
                  \/ /\ Len(mic_buf[Ring(Full + 1)]) + 1 < MIC_BUF_LEN
                     /\ done' = [done EXCEPT ![Ring(Full + 1)] = FALSE]
                     /\ queue' = queue
<1>1. RingType /\ RingOrder
  BY DEF RingInv
<1>2. /\ MIC_N_BUF \in Nat /\ MIC_N_BUF > 0 /\ MIC_BUF_LEN \in Nat /\ MIC_BUF_LEN > 0
      /\ Full \in 0 .. MIC_N_BUF /\ Len(queue) \in Nat /\ Full = MIC_N_BUF - Len(queue)
      /\ \A k \in 1 .. MIC_N_BUF : Ring(k) \in Buffers
      /\ \A b \in Buffers : Len(mic_buf[b]) \in Nat
  BY RingFacts
<1>3. queue = <<>> <=> Len(queue) = 0
  BY <1>1, EmptySeq DEF RingType
<1>4. heard' = heard + 1 /\ cur_buf' = cur_buf /\ cur_off' = cur_off
  BY DEF MicHear
<1>5. CASE queue = <<>>
  BY <1>2, <1>3, <1>4, <1>5 DEF MicHear
<1>6. CASE queue # <<>>
  <2>1. Len(queue) > 0 /\ Full < MIC_N_BUF /\ Full + 1 \in 1 .. MIC_N_BUF
    BY <1>2, <1>3, <1>6
  <2>2. Head(queue) = queue[1]
    BY <1>1, <1>6, HeadTailProperties DEF RingType
  <2>3. Head(queue) = Ring(Full + 1)
    BY <1>1, <1>2, <2>1, <2>2 DEF RingOrder
  <2>4. Ring(Full + 1) \in Buffers /\ Len(mic_buf[Ring(Full + 1)]) \in Nat
    BY <1>2, <2>1
  <2>5. Len(mic_buf[Ring(Full + 1)]) < MIC_BUF_LEN
    BY <1>1, <2>1 DEF RingOrder
  <2> DEFINE b == Ring(Full + 1)
             full == Len(mic_buf[b]) + 1 = MIC_BUF_LEN
  <2>6. /\ lost' = lost
        /\ mic_buf' = [mic_buf EXCEPT ![b] = Append(@, heard + 1)]
        /\ done' = [done EXCEPT ![b] = full]
        /\ queue' = IF full THEN Tail(queue) ELSE queue
    BY <1>6, <2>3 DEF MicHear
  <2>7. CASE full
    <3>1. full = TRUE
      BY <2>7
    <3>2. done' = [done EXCEPT ![b] = TRUE]
      BY <2>6, <3>1
    <3> QED
      BY <1>4, <1>6, <2>1, <2>6, <2>7, <3>2
  <2>8. CASE ~full
    <3>1. full = FALSE
      BY <2>8
    <3>2. done' = [done EXCEPT ![b] = FALSE]
      BY <2>6, <3>1
    <3>3. Len(mic_buf[b]) + 1 < MIC_BUF_LEN
      BY <1>2, <2>4, <2>5, <2>8
    <3> QED
      BY <1>4, <2>1, <2>6, <2>8, <3>2, <3>3
  <2> QED
    BY <2>7, <2>8
<1> QED
  BY <1>5, <1>6

\* A recorded sample, and the end of a buffer, leave the ring whole.
LEMMA HearKeepsRing == RingInv /\ MicHear => RingInv'
<1> SUFFICES ASSUME RingInv, MicHear PROVE RingInv'
  OBVIOUS
<1>1. RingType /\ RingOrder
  BY DEF RingInv
<1>2. /\ MIC_N_BUF \in Nat /\ MIC_N_BUF > 0 /\ MIC_BUF_LEN \in Nat /\ MIC_BUF_LEN > 0
      /\ Full \in 0 .. MIC_N_BUF /\ Len(queue) \in Nat /\ Full = MIC_N_BUF - Len(queue)
      /\ heard \in Nat
      /\ \A b \in Buffers : mic_buf[b] \in Seq(Nat) /\ Len(mic_buf[b]) \in Nat
                            /\ (mic_buf[b] = <<>> <=> Len(mic_buf[b]) = 0)
      /\ \A k \in 1 .. MIC_N_BUF : Ring(k) \in Buffers
      /\ \A k, l \in 1 .. MIC_N_BUF : Ring(k) = Ring(l) => k = l
  BY RingFacts
<1>3. heard' = heard + 1 /\ cur_buf' = cur_buf /\ cur_off' = cur_off
  BY HearFacts
<1>4. heard' \in Nat
  BY <1>2, <1>3
<1>5. \A k : Ring(k)' = Ring(k)
  BY <1>3 DEF Ring
<1>6. CASE lost' = lost \cup {heard + 1} /\ mic_buf' = mic_buf /\ done' = done /\ queue' = queue
  <2>1. Full' = Full
    BY <1>6 DEF Full
  <2>2. RingType'
    BY <1>1, <1>3, <1>4, <1>6 DEF RingType
  <2>3. RingOrder'
    BY <1>1, <1>3, <1>5, <1>6, <2>1 DEF RingOrder
  <2> QED
    BY <2>2, <2>3 DEF RingInv
<1>7. CASE /\ Full < MIC_N_BUF
           /\ mic_buf' = [mic_buf EXCEPT ![Ring(Full + 1)] = Append(@, heard + 1)]
  <2> DEFINE b == Ring(Full + 1)
  <2>1. Full + 1 \in 1 .. MIC_N_BUF /\ b \in Buffers
    BY <1>2, <1>7
  <2>2. /\ Append(mic_buf[b], heard + 1) \in Seq(Nat)
        /\ Len(Append(mic_buf[b], heard + 1)) = Len(mic_buf[b]) + 1
    BY <1>2, <2>1, AppendProperties
  <2>3. DOMAIN mic_buf = Buffers /\ DOMAIN done = Buffers
    BY <1>1 DEF RingType
  <2>4. /\ Len(mic_buf'[b]) = Len(mic_buf[b]) + 1
        /\ \A k \in 1 .. MIC_N_BUF : k # Full + 1 => mic_buf'[Ring(k)] = mic_buf[Ring(k)]
    BY <1>2, <1>7, <2>1, <2>2, <2>3
  <2>5. mic_buf' \in [Buffers -> Seq(Nat)]
    BY <1>1, <1>7, <2>1, <2>2 DEF RingType
  <2>6. /\ \A k \in 1 .. MIC_N_BUF : k <= Full => Len(mic_buf'[Ring(k)]) = MIC_BUF_LEN
        /\ \A k \in 1 .. MIC_N_BUF : k > Full + 1 => mic_buf'[Ring(k)] = <<>>
    <3>1. /\ \A k \in 1 .. MIC_N_BUF : k <= Full => Len(mic_buf[Ring(k)]) = MIC_BUF_LEN
          /\ \A k \in 1 .. MIC_N_BUF : k > Full + 1 => mic_buf[Ring(k)] = <<>>
      BY <1>1 DEF RingOrder
    <3>2. \A k \in 1 .. MIC_N_BUF : k <= Full \/ k > Full + 1 => k # Full + 1
      BY <1>2
    <3> QED
      BY <2>4, <3>1, <3>2
  <2>7. CASE /\ Len(mic_buf[b]) + 1 = MIC_BUF_LEN
             /\ done' = [done EXCEPT ![b] = TRUE]
             /\ queue' = Tail(queue) /\ queue # <<>>
    <3>1. /\ queue' \in Seq(Buffers) /\ Len(queue') = Len(queue) - 1
          /\ \A j \in 1 .. Len(queue') : queue'[j] = queue[j + 1]
      BY <1>1, <2>7, HeadTailProperties DEF RingType
    <3>2. Full' = Full + 1
      BY <1>2, <3>1 DEF Full
    <3>3. RingType'
      <4>1. Len(queue') <= MIC_N_BUF
        BY <1>2, <3>1
      <4>2. done' \in [Buffers -> BOOLEAN]
        BY <1>1, <2>1, <2>7 DEF RingType
      <4> QED
        BY <1>1, <1>3, <1>4, <2>5, <3>1, <4>1, <4>2 DEF RingType
    <3>4. \A j \in 1 .. Len(queue') : queue'[j] = Ring(Full + 1 + j)
      <4> TAKE j \in 1 .. Len(queue')
      <4>1. j + 1 \in 1 .. Len(queue) /\ Full + (j + 1) = Full + 1 + j
        BY <1>2, <3>1
      <4>2. queue[j + 1] = Ring(Full + (j + 1))
        BY <1>1, <4>1 DEF RingOrder
      <4> QED
        BY <3>1, <4>1, <4>2
    <3>5. \A k \in 1 .. MIC_N_BUF : done'[Ring(k)] <=> k <= Full + 1
      <4> TAKE k \in 1 .. MIC_N_BUF
      <4>1. CASE k = Full + 1
        BY <1>2, <2>1, <2>3, <2>7, <4>1
      <4>2. CASE k # Full + 1
        <5>1. done'[Ring(k)] = done[Ring(k)]
          BY <1>2, <2>1, <2>3, <2>7, <4>2
        <5>2. done[Ring(k)] <=> k <= Full
          BY <1>1 DEF RingOrder
        <5>3. k <= Full <=> k <= Full + 1
          BY <1>2, <4>2
        <5> QED
          BY <5>1, <5>2, <5>3
      <4> QED
        BY <4>1, <4>2
    <3>6. \A k \in 1 .. MIC_N_BUF :
            /\ k <= Full + 1 => Len(mic_buf'[Ring(k)]) = MIC_BUF_LEN
            /\ k = Full + 1 + 1 => Len(mic_buf'[Ring(k)]) < MIC_BUF_LEN
            /\ k > Full + 1 + 1 => mic_buf'[Ring(k)] = <<>>
      <4> TAKE k \in 1 .. MIC_N_BUF
      <4>1. k <= Full + 1 => Len(mic_buf'[Ring(k)]) = MIC_BUF_LEN
        <5>1. k <= Full + 1 => k <= Full \/ k = Full + 1
          BY <1>2
        <5>2. Len(mic_buf'[Ring(Full + 1)]) = MIC_BUF_LEN
          BY <2>4, <2>7
        <5> QED
          BY <2>6, <5>1, <5>2
      <4>2. k > Full + 1 => mic_buf'[Ring(k)] = <<>>
        BY <2>6
      <4>3. Len(<<>>) = 0
        BY EmptySeq
      <4> QED
        BY <1>2, <4>1, <4>2, <4>3
    <3>7. cur_off' > 0 => Full + 1 > 0
      BY <1>2
    <3>8. RingOrder'
      BY <1>5, <3>2, <3>4, <3>5, <3>6, <3>7 DEF RingOrder
    <3> QED
      BY <3>3, <3>8 DEF RingInv
  <2>8. CASE /\ Len(mic_buf[b]) + 1 < MIC_BUF_LEN
             /\ done' = [done EXCEPT ![b] = FALSE]
             /\ queue' = queue
    <3>1. Full' = Full
      BY <2>8 DEF Full
    <3>2. RingType'
      BY <1>1, <1>3, <1>4, <2>1, <2>5, <2>8 DEF RingType
    <3>3. \A k \in 1 .. MIC_N_BUF : done'[Ring(k)] <=> k <= Full
      <4> TAKE k \in 1 .. MIC_N_BUF
      <4>1. done[Ring(k)] <=> k <= Full
        BY <1>1 DEF RingOrder
      <4>2. CASE k = Full + 1
        <5>1. ~done'[Ring(k)]
          BY <2>1, <2>3, <2>8, <4>2
        <5> QED
          BY <1>2, <4>2, <5>1
      <4>3. CASE k # Full + 1
        <5>1. done'[Ring(k)] = done[Ring(k)]
          BY <1>2, <2>1, <2>3, <2>8, <4>3
        <5> QED
          BY <4>1, <5>1
      <4> QED
        BY <4>2, <4>3
    <3>4. \A k \in 1 .. MIC_N_BUF :
            /\ k <= Full => Len(mic_buf'[Ring(k)]) = MIC_BUF_LEN
            /\ k = Full + 1 => Len(mic_buf'[Ring(k)]) < MIC_BUF_LEN
            /\ k > Full + 1 => mic_buf'[Ring(k)] = <<>>
      BY <2>4, <2>6, <2>8
    <3>5. RingOrder'
      BY <1>1, <1>3, <1>5, <2>8, <3>1, <3>3, <3>4 DEF RingOrder
    <3> QED
      BY <3>2, <3>5 DEF RingInv
  <2> QED
    BY <1>2, <1>7, <2>7, <2>8, HearFacts
<1> QED
  BY <1>6, <1>7, HearFacts

\* What follows still follows when more is lost, and the latest sample is followed
\* by the one heard next.
LEMMA LossesGrow ==
  ASSUME heard \in Nat, heard' = heard + 1,
         lost' = lost \/ lost' = lost \cup {heard + 1}
  PROVE  /\ \A a, b \in Nat : Follows(a, b) => Follows(a, b)'
         /\ \A a \in Nat : Latest(a) /\ lost' = lost \cup {heard + 1} => Latest(a)'
         /\ \A a, b \in Nat : Latest(a) /\ b = heard + 1 => Follows(a, b)'
         /\ \A b \in Nat : b = heard + 1 => Latest(b)'
<1>1. \A a, b \in Nat : Follows(a, b) => Follows(a, b)'
  BY DEF Follows
<1>2. \A a \in Nat : Latest(a) /\ lost' = lost \cup {heard + 1} => Latest(a)'
  BY DEF Latest
<1>3. \A a, b \in Nat : Latest(a) /\ b = heard + 1 => Follows(a, b)'
  BY DEF Latest, Follows
<1>4. \A b \in Nat : b = heard + 1 => Latest(b)'
  <2>1. \A b \in Nat : b + 1 .. b = {}
    OBVIOUS
  <2> QED
    BY <2>1 DEF Latest
<1> QED
  BY <1>1, <1>2, <1>3, <1>4

\* What is recorded next follows the last that was recorded.
LEMMA HearKeepsChain == RingInv /\ ChainInv /\ MicHear => ChainInv'
<1> SUFFICES ASSUME RingInv, ChainInv, MicHear PROVE ChainInv'
  OBVIOUS
<1>1. RingOrder /\ \A b \in Buffers : mic_buf[b] \in Seq(Nat)
  BY DEF RingInv, RingType
<1>2. /\ MIC_N_BUF \in Nat /\ MIC_N_BUF > 0 /\ MIC_BUF_LEN \in Nat /\ MIC_BUF_LEN > 0
      /\ Full \in 0 .. MIC_N_BUF /\ heard \in Nat
      /\ \A b \in Buffers : Len(mic_buf[b]) \in Nat /\ (mic_buf[b] = <<>> <=> Len(mic_buf[b]) = 0)
      /\ \A k \in 1 .. MIC_N_BUF : Ring(k) \in Buffers
      /\ \A k, l \in 1 .. MIC_N_BUF : Ring(k) = Ring(l) => k = l
      /\ \A b \in Buffers : \E k \in 1 .. MIC_N_BUF : Ring(k) = b
  BY RingFacts
<1>3. heard' = heard + 1 /\ cur_buf' = cur_buf /\ (lost' = lost \/ lost' = lost \cup {heard + 1})
  BY HearFacts
<1>4. \A k : Ring(k)' = Ring(k)
  BY <1>3 DEF Ring
<1>5. /\ \A b \in Buffers : \A j \in 1 .. Len(mic_buf[b]) : mic_buf[b][j] \in 1 .. heard
      /\ \A b \in Buffers : \A j \in 1 .. Len(mic_buf[b]) - 1 : Follows(mic_buf[b][j], mic_buf[b][j + 1])
  BY DEF ChainInv
<1>6. /\ \A k \in 1 .. MIC_N_BUF - 1 :
           mic_buf[Ring(k + 1)] # <<>> => Follows(mic_buf[Ring(k)][MIC_BUF_LEN], mic_buf[Ring(k + 1)][1])
      /\ \A k \in 1 .. MIC_N_BUF :
           mic_buf[Ring(k)] # <<>> /\ (k < MIC_N_BUF => mic_buf[Ring(k + 1)] = <<>>)
             => Latest(mic_buf[Ring(k)][Len(mic_buf[Ring(k)])])
  BY DEF ChainInv
<1>7. /\ \A a, b \in Nat : Follows(a, b) => Follows(a, b)'
      /\ \A a \in Nat : Latest(a) /\ lost' = lost \cup {heard + 1} => Latest(a)'
      /\ \A a, b \in Nat : Latest(a) /\ b = heard + 1 => Follows(a, b)'
      /\ \A b \in Nat : b = heard + 1 => Latest(b)'
  BY <1>2, <1>3, LossesGrow
<1>8. \A b \in Buffers : \A j \in 1 .. Len(mic_buf[b]) : mic_buf[b][j] \in Nat
  BY <1>2, <1>5
<1>9. \A k \in 1 .. MIC_N_BUF - 1 : k \in 1 .. MIC_N_BUF /\ k + 1 \in 1 .. MIC_N_BUF /\ k < MIC_N_BUF
  BY <1>2
\* A buffer before one that holds samples is full.
<1>10. \A k \in 1 .. MIC_N_BUF - 1 :
         mic_buf[Ring(k + 1)] # <<>> => k <= Full /\ Len(mic_buf[Ring(k)]) = MIC_BUF_LEN
  <2> TAKE k \in 1 .. MIC_N_BUF - 1
  <2> HAVE mic_buf[Ring(k + 1)] # <<>>
  <2>1. ~(k + 1 > Full + 1)
    BY <1>1, <1>9 DEF RingOrder
  <2>2. k <= Full
    BY <1>2, <2>1
  <2> QED
    BY <1>1, <1>9, <2>2 DEF RingOrder
<1>11. CASE lost' = lost \cup {heard + 1} /\ mic_buf' = mic_buf
  <2>1. \A b \in Buffers : \A j \in 1 .. Len(mic_buf[b]) : mic_buf[b][j] \in 1 .. heard'
    BY <1>2, <1>3, <1>5
  <2>2. \A b \in Buffers : \A j \in 1 .. Len(mic_buf[b]) - 1 : Follows(mic_buf[b][j], mic_buf[b][j + 1])'
    <3> TAKE b \in Buffers
    <3> TAKE j \in 1 .. Len(mic_buf[b]) - 1
    <3>1. Follows(mic_buf[b][j], mic_buf[b][j + 1])
      BY <1>5
    <3>2. j \in 1 .. Len(mic_buf[b]) /\ j + 1 \in 1 .. Len(mic_buf[b])
      BY <1>2
    <3>3. mic_buf[b][j] \in Nat /\ mic_buf[b][j + 1] \in Nat
      BY <1>8, <3>2
    <3>4. Follows(mic_buf[b][j], mic_buf[b][j + 1])'
      BY <1>7, <1>11, <3>1, <3>3 DEF Follows
    <3> QED
      BY <3>4
  <2>3. \A k \in 1 .. MIC_N_BUF - 1 :
           mic_buf[Ring(k + 1)] # <<>> => Follows(mic_buf[Ring(k)][MIC_BUF_LEN], mic_buf[Ring(k + 1)][1])'
    <3> TAKE k \in 1 .. MIC_N_BUF - 1
    <3> HAVE mic_buf[Ring(k + 1)] # <<>>
    <3>1. Follows(mic_buf[Ring(k)][MIC_BUF_LEN], mic_buf[Ring(k + 1)][1])
      BY <1>6
    <3>2. MIC_BUF_LEN \in 1 .. Len(mic_buf[Ring(k)]) /\ 1 \in 1 .. Len(mic_buf[Ring(k + 1)])
      BY <1>2, <1>9, <1>10
    <3>3. mic_buf[Ring(k)][MIC_BUF_LEN] \in Nat /\ mic_buf[Ring(k + 1)][1] \in Nat
      BY <1>2, <1>8, <1>9, <3>2
    <3> QED
      BY <1>4, <1>7, <1>11, <3>1, <3>3 DEF Follows
  <2>4. \A k \in 1 .. MIC_N_BUF :
           mic_buf[Ring(k)] # <<>> /\ (k < MIC_N_BUF => mic_buf[Ring(k + 1)] = <<>>)
             => Latest(mic_buf[Ring(k)][Len(mic_buf[Ring(k)])])'
    <3> TAKE k \in 1 .. MIC_N_BUF
    <3> HAVE mic_buf[Ring(k)] # <<>> /\ (k < MIC_N_BUF => mic_buf[Ring(k + 1)] = <<>>)
    <3>1. Latest(mic_buf[Ring(k)][Len(mic_buf[Ring(k)])])
      BY <1>6
    <3>2. mic_buf[Ring(k)][Len(mic_buf[Ring(k)])] \in Nat
      BY <1>2, <1>8
    <3> QED
      BY <1>4, <1>7, <1>11, <3>1, <3>2 DEF Latest
  <2> QED
    BY <1>4, <1>11, <2>1, <2>2, <2>3, <2>4 DEF ChainInv
<1>12. CASE /\ Full < MIC_N_BUF /\ lost' = lost
            /\ mic_buf' = [mic_buf EXCEPT ![Ring(Full + 1)] = Append(@, heard + 1)]
  <2> DEFINE c == Ring(Full + 1)
             s == mic_buf[c]
  <2>1. Full + 1 \in 1 .. MIC_N_BUF /\ c \in Buffers /\ s \in Seq(Nat) /\ Len(s) \in Nat
    BY <1>1, <1>2, <1>12
  <2>2. /\ Len(Append(s, heard + 1)) = Len(s) + 1
        /\ \A j \in 1 .. Len(s) : Append(s, heard + 1)[j] = s[j]
        /\ Append(s, heard + 1)[Len(s) + 1] = heard + 1
    BY <1>2, <2>1, AppendProperties
  <2>3. DOMAIN mic_buf = Buffers
    BY DEF RingInv, RingType
  <2>4. /\ mic_buf'[c] = Append(s, heard + 1)
        /\ \A b \in Buffers : b # c => mic_buf'[b] = mic_buf[b]
    BY <1>12, <2>1, <2>3
  <2>5. /\ Len(mic_buf'[c]) = Len(s) + 1
        /\ \A j \in 1 .. Len(s) : mic_buf'[c][j] = s[j]
        /\ mic_buf'[c][Len(s) + 1] = heard + 1
    BY <2>2, <2>4
  <2> HIDE DEF c, s
  \* What is behind the last of the buffer, or of the one before, is the latest.
  <2>6. ASSUME Len(s) > 0
        PROVE  s[Len(s)] \in Nat /\ Latest(s[Len(s)])
    <3>1. s # <<>> /\ s[Len(s)] \in Nat
      BY <1>2, <1>8, <2>1, <2>6 DEF s
    <3>2. Full + 1 < MIC_N_BUF => mic_buf[Ring(Full + 1 + 1)] = <<>>
      <4> HAVE Full + 1 < MIC_N_BUF
      <4>1. Full + 1 + 1 \in 1 .. MIC_N_BUF /\ Full + 1 + 1 > Full + 1
        BY <1>2
      <4> QED
        BY <1>1, <4>1 DEF RingOrder
    <3> QED
      BY <1>6, <2>1, <3>1, <3>2 DEF s, c
  <2>7. ASSUME Len(s) = 0, Full >= 1
        PROVE  mic_buf[Ring(Full)][MIC_BUF_LEN] \in Nat /\ Latest(mic_buf[Ring(Full)][MIC_BUF_LEN])
    <3>1. Full \in 1 .. MIC_N_BUF
      BY <1>2, <2>7
    <3>2. Len(mic_buf[Ring(Full)]) = MIC_BUF_LEN
      BY <1>1, <1>2, <3>1 DEF RingOrder
    <3>3. mic_buf[Ring(Full)] # <<>> /\ mic_buf[Ring(Full)][MIC_BUF_LEN] \in Nat
      BY <1>2, <1>8, <3>1, <3>2
    <3>4. mic_buf[Ring(Full + 1)] = <<>>
      BY <1>2, <2>1, <2>7 DEF s, c
    <3> QED
      BY <1>6, <3>1, <3>2, <3>3, <3>4
  <2>8. \A b \in Buffers : \A j \in 1 .. Len(mic_buf'[b]) : mic_buf'[b][j] \in 1 .. heard'
    <3> TAKE b \in Buffers
    <3> TAKE j \in 1 .. Len(mic_buf'[b])
    <3>1. CASE b # c
      BY <1>2, <1>3, <1>5, <2>4, <3>1
    <3>2. CASE b = c
      <4>1. j \in 1 .. Len(s) \/ j = Len(s) + 1
        BY <2>1, <2>5, <3>2
      <4>2. j \in 1 .. Len(s) => mic_buf'[b][j] \in 1 .. heard
        BY <1>5, <2>1, <2>5, <3>2 DEF s
      <4> QED
        BY <1>2, <1>3, <2>5, <3>2, <4>1, <4>2
    <3> QED
      BY <3>1, <3>2
  <2>9. \A b \in Buffers : \A j \in 1 .. Len(mic_buf'[b]) - 1 : Follows(mic_buf[b][j], mic_buf[b][j + 1])'
    <3> TAKE b \in Buffers
    <3> TAKE j \in 1 .. Len(mic_buf'[b]) - 1
    <3>1. CASE b # c \/ j \in 1 .. Len(s) - 1
      <4>1. /\ j \in 1 .. Len(mic_buf[b]) - 1 /\ Len(mic_buf[b]) \in Nat
            /\ mic_buf'[b][j] = mic_buf[b][j] /\ mic_buf'[b][j + 1] = mic_buf[b][j + 1]
        <5>1. CASE b # c
          BY <1>2, <2>4, <5>1
        <5>2. CASE b = c
          <6>1. j \in 1 .. Len(s) - 1 /\ j \in 1 .. Len(s) /\ j + 1 \in 1 .. Len(s)
            BY <2>1, <3>1, <5>2
          <6> QED
            BY <2>1, <2>5, <5>2, <6>1 DEF s
        <5> QED
          BY <5>1, <5>2
      <4>2. Follows(mic_buf[b][j], mic_buf[b][j + 1])
        BY <1>5, <4>1
      <4>3. j \in 1 .. Len(mic_buf[b]) /\ j + 1 \in 1 .. Len(mic_buf[b])
        BY <4>1
      <4>4. mic_buf[b][j] \in Nat /\ mic_buf[b][j + 1] \in Nat
        BY <1>8, <4>3
      <4> QED
        BY <1>7, <4>1, <4>2, <4>4 DEF Follows
    <3>2. CASE b = c /\ ~(j \in 1 .. Len(s) - 1)
      <4>1. j = Len(s) /\ Len(s) > 0 /\ j \in 1 .. Len(s)
        BY <2>1, <2>5, <3>2
      <4>2. mic_buf'[b][j] = s[Len(s)] /\ mic_buf'[b][j + 1] = heard + 1
        BY <2>5, <3>2, <4>1
      <4>3. s[Len(s)] \in Nat /\ Latest(s[Len(s)])
        BY <2>6, <4>1
      <4> QED
        BY <1>2, <1>7, <4>2, <4>3 DEF Follows
    <3> QED
      BY <3>1, <3>2
  <2>10. \A k \in 1 .. MIC_N_BUF : k # Full + 1 => mic_buf'[Ring(k)] = mic_buf[Ring(k)]
    BY <1>2, <2>1, <2>4 DEF c
  <2>11. \A k \in 1 .. MIC_N_BUF - 1 :
           mic_buf'[Ring(k + 1)] # <<>> => Follows(mic_buf[Ring(k)][MIC_BUF_LEN], mic_buf[Ring(k + 1)][1])'
    <3> TAKE k \in 1 .. MIC_N_BUF - 1
    <3> HAVE mic_buf'[Ring(k + 1)] # <<>>
    <3>1. CASE k # Full
      <4>1. k + 1 # Full + 1 /\ k + 1 \in 1 .. MIC_N_BUF /\ k \in 1 .. MIC_N_BUF
        BY <1>2, <3>1
      <4>2. mic_buf'[Ring(k + 1)] = mic_buf[Ring(k + 1)] /\ mic_buf[Ring(k + 1)] # <<>>
        BY <2>10, <4>1
      <4>3. k <= Full /\ Len(mic_buf[Ring(k)]) = MIC_BUF_LEN
        BY <1>10, <4>2
      <4>4. mic_buf'[Ring(k)] = mic_buf[Ring(k)]
        BY <1>2, <2>10, <4>1, <4>3
      <4>5. Follows(mic_buf[Ring(k)][MIC_BUF_LEN], mic_buf[Ring(k + 1)][1])
        BY <1>6, <4>2
      <4>6. mic_buf[Ring(k)][MIC_BUF_LEN] \in Nat /\ mic_buf[Ring(k + 1)][1] \in Nat
        BY <1>2, <1>8, <4>1, <4>2, <4>3
      <4> QED
        BY <1>4, <1>7, <4>2, <4>4, <4>5, <4>6 DEF Follows
    <3>2. CASE k = Full
      <4>1. k # Full + 1 /\ k \in 1 .. MIC_N_BUF /\ Full >= 1
        BY <1>2, <3>2
      <4>2. mic_buf'[Ring(k)] = mic_buf[Ring(k)] /\ Len(mic_buf[Ring(k)]) = MIC_BUF_LEN
        BY <1>1, <1>2, <2>10, <3>2, <4>1 DEF RingOrder
      <4>3. mic_buf[Ring(k)][MIC_BUF_LEN] \in Nat
        BY <1>2, <1>8, <4>1, <4>2
      <4>4. CASE Len(s) = 0
        <5>1. mic_buf'[Ring(k + 1)][1] = heard + 1
          BY <2>5, <3>2, <4>4 DEF c
        <5>2. Latest(mic_buf[Ring(k)][MIC_BUF_LEN])
          BY <2>7, <3>2, <4>1, <4>4
        <5> QED
          BY <1>2, <1>4, <1>7, <4>2, <4>3, <5>1, <5>2 DEF Follows
      <4>5. CASE Len(s) > 0
        <5>1. 1 \in 1 .. Len(s)
          BY <2>1, <4>5
        <5>2. mic_buf'[Ring(k + 1)][1] = s[1] /\ s[1] \in Nat /\ s = mic_buf[Ring(k + 1)]
          BY <1>8, <2>1, <2>5, <3>2, <5>1 DEF s, c
        <5>3. s # <<>>
          BY <1>2, <2>1, <4>5 DEF s
        <5>4. Follows(mic_buf[Ring(k)][MIC_BUF_LEN], s[1])
          BY <1>6, <5>2, <5>3
        <5> QED
          BY <1>4, <1>7, <4>2, <4>3, <5>2, <5>4 DEF Follows
      <4> QED
        BY <2>1, <4>4, <4>5
    <3> QED
      BY <3>1, <3>2
  <2>12. \A k \in 1 .. MIC_N_BUF :
           mic_buf'[Ring(k)] # <<>> /\ (k < MIC_N_BUF => mic_buf'[Ring(k + 1)] = <<>>)
             => Latest(mic_buf[Ring(k)][Len(mic_buf[Ring(k)])])'
    <3> TAKE k \in 1 .. MIC_N_BUF
    <3> HAVE mic_buf'[Ring(k)] # <<>> /\ (k < MIC_N_BUF => mic_buf'[Ring(k + 1)] = <<>>)
    <3>1. ~(k > Full + 1)
      <4> SUFFICES ASSUME k > Full + 1 PROVE FALSE
        OBVIOUS
      <4>1. mic_buf[Ring(k)] = <<>>
        BY <1>1 DEF RingOrder
      <4> QED
        BY <1>2, <2>10, <4>1
    <3>2. ~(k <= Full)
      <4> SUFFICES ASSUME k <= Full PROVE FALSE
        OBVIOUS
      <4>1. k < MIC_N_BUF /\ k + 1 \in 1 .. MIC_N_BUF
        BY <1>2, <1>12
      <4>2. mic_buf'[Ring(k + 1)] = <<>>
        BY <4>1
      <4>3. CASE k = Full
        <5>1. Len(mic_buf'[Ring(k + 1)]) = Len(s) + 1
          BY <2>5, <4>3 DEF c
        <5>2. Len(<<>>) = 0
          BY EmptySeq
        <5> QED
          BY <2>1, <4>2, <5>1, <5>2
      <4>4. CASE k # Full
        <5>1. k + 1 <= Full /\ k + 1 # Full + 1
          BY <1>2, <4>4
        <5>2. Len(mic_buf[Ring(k + 1)]) = MIC_BUF_LEN
          BY <1>1, <4>1, <5>1 DEF RingOrder
        <5>3. mic_buf[Ring(k + 1)] = <<>>
          BY <2>10, <4>1, <4>2, <5>1
        <5> QED
          BY <1>2, <4>1, <5>2, <5>3
      <4> QED
        BY <4>3, <4>4
    <3>3. k = Full + 1
      BY <1>2, <3>1, <3>2
    <3>4. mic_buf'[Ring(k)][Len(mic_buf'[Ring(k)])] = heard + 1
      BY <2>5, <3>3 DEF c
    <3> QED
      BY <1>2, <1>4, <1>7, <3>4 DEF Latest
  <2> QED
    BY <1>4, <2>8, <2>9, <2>11, <2>12 DEF ChainInv
<1> QED
  BY <1>11, <1>12, HearFacts

\* Recording does not change what is to be read next.
LEMMA HearKeepsNext ==
  ASSUME RingInv, ChainInv, MicHear
  PROVE  \A a \in Nat : NextIs(a) => NextIs(a)'
<1>1. RingOrder /\ \A b \in Buffers : mic_buf[b] \in Seq(Nat)
  BY DEF RingInv, RingType
<1>2. /\ MIC_N_BUF \in Nat /\ MIC_N_BUF > 0 /\ MIC_BUF_LEN \in Nat /\ MIC_BUF_LEN > 0
      /\ Full \in 0 .. MIC_N_BUF /\ heard \in Nat /\ cur_off \in 0 .. MIC_BUF_LEN - 1
      /\ \A b \in Buffers : Len(mic_buf[b]) \in Nat /\ (mic_buf[b] = <<>> <=> Len(mic_buf[b]) = 0)
      /\ \A k \in 1 .. MIC_N_BUF : Ring(k) \in Buffers
      /\ \A k, l \in 1 .. MIC_N_BUF : Ring(k) = Ring(l) => k = l
      /\ Ring(1) = cur_buf
  BY RingFacts
<1>3. /\ heard' = heard + 1 /\ cur_buf' = cur_buf /\ cur_off' = cur_off
      /\ lost' = lost \/ lost' = lost \cup {heard + 1}
  BY HearFacts
<1>4. /\ \A a, b \in Nat : Follows(a, b) => Follows(a, b)'
      /\ \A a \in Nat : Latest(a) /\ lost' = lost \cup {heard + 1} => Latest(a)'
      /\ \A a, b \in Nat : Latest(a) /\ b = heard + 1 => Follows(a, b)'
  BY <1>2, <1>3, LossesGrow
<1>5. \A b \in Buffers : \A j \in 1 .. Len(mic_buf[b]) : mic_buf[b][j] \in Nat
  BY <1>2 DEF ChainInv
<1>6. cur_buf \in Buffers /\ 1 \in 1 .. MIC_N_BUF
  BY <1>2
<1> TAKE a \in Nat
<1> HAVE NextIs(a)
<1>7. CASE lost' = lost \cup {heard + 1} /\ mic_buf' = mic_buf
  <2>1. CASE cur_off > 0
    BY <1>3, <1>7, <2>1 DEF NextIs
  <2>2. CASE ~(cur_off > 0) /\ mic_buf[cur_buf] # <<>>
    <3>1. mic_buf[cur_buf][1] \in Nat
      BY <1>2, <1>5, <1>6, <2>2
    <3>2. Follows(a, mic_buf[cur_buf][1])
      BY <2>2 DEF NextIs
    <3> QED
      BY <1>3, <1>4, <1>7, <2>2, <3>1, <3>2 DEF NextIs, Follows
  <2>3. CASE ~(cur_off > 0) /\ mic_buf[cur_buf] = <<>>
    <3>1. Latest(a)
      BY <2>3 DEF NextIs
    <3>2. Latest(a)'
      BY <1>4, <1>7, <3>1
    <3> QED
      BY <1>3, <1>7, <2>3, <3>2 DEF NextIs, Latest
  <2> QED
    BY <2>1, <2>2, <2>3
<1>8. CASE /\ Full < MIC_N_BUF /\ lost' = lost
           /\ mic_buf' = [mic_buf EXCEPT ![Ring(Full + 1)] = Append(@, heard + 1)]
  <2> DEFINE c == Ring(Full + 1)
  <2>1. Full + 1 \in 1 .. MIC_N_BUF /\ c \in Buffers
    BY <1>2, <1>8
  <2>2. DOMAIN mic_buf = Buffers
    BY DEF RingInv, RingType
  <2>3. mic_buf'[c] = Append(mic_buf[c], heard + 1) /\ \A b \in Buffers : b # c => mic_buf'[b] = mic_buf[b]
    BY <1>8, <2>1, <2>2
  <2>4. /\ Len(mic_buf'[c]) = Len(mic_buf[c]) + 1
        /\ \A j \in 1 .. Len(mic_buf[c]) : mic_buf'[c][j] = mic_buf[c][j]
        /\ mic_buf'[c][Len(mic_buf[c]) + 1] = heard + 1
    BY <1>1, <1>2, <2>1, <2>3, AppendProperties
  <2>5. CASE Full >= 1
    <3>1. cur_buf # c /\ mic_buf'[cur_buf] = mic_buf[cur_buf]
      BY <1>2, <1>6, <2>1, <2>3, <2>5
    <3>2. CASE cur_off > 0
      BY <1>3, <3>1, <3>2 DEF NextIs
    <3>3. CASE ~(cur_off > 0)
      <4>1. Len(mic_buf[cur_buf]) = MIC_BUF_LEN
        BY <1>1, <1>2, <1>6, <2>5 DEF RingOrder
      <4>2. mic_buf[cur_buf] # <<>> /\ mic_buf[cur_buf][1] \in Nat
        BY <1>2, <1>5, <1>6, <4>1
      <4>3. Follows(a, mic_buf[cur_buf][1])
        BY <3>3, <4>2 DEF NextIs
      <4> QED
        BY <1>3, <1>8, <3>1, <3>3, <4>2, <4>3 DEF NextIs, Follows
    <3> QED
      BY <3>2, <3>3
  <2>6. CASE Full = 0
    <3>1. c = cur_buf /\ ~(cur_off > 0)
      BY <1>1, <1>2, <2>6 DEF RingOrder
    <3>2. mic_buf'[cur_buf] # <<>>
      <4>1. Len(mic_buf'[cur_buf]) > 0 /\ Len(<<>>) = 0
        BY <1>2, <2>1, <2>4, <3>1, EmptySeq
      <4> QED
        BY <4>1
    <3>3. CASE mic_buf[cur_buf] # <<>>
      <4>1. 1 \in 1 .. Len(mic_buf[c])
        BY <1>2, <2>1, <3>1, <3>3
      <4>2. mic_buf'[cur_buf][1] = mic_buf[cur_buf][1]
        BY <2>4, <3>1, <4>1
      <4> QED
        BY <1>3, <1>8, <3>1, <3>2, <3>3, <4>2 DEF NextIs, Follows
    <3>4. CASE mic_buf[cur_buf] = <<>>
      <4>1. mic_buf'[cur_buf][1] = heard + 1
        BY <1>2, <2>1, <2>4, <3>1, <3>4
      <4>2. Latest(a)
        BY <3>1, <3>4 DEF NextIs
      <4>3. heard + 1 \in Nat
        BY <1>2
      <4>4. \A b \in Nat : b = heard + 1 => Follows(a, b)'
        BY <1>4, <4>2
      <4>5. Follows(a, mic_buf[cur_buf][1])'
        BY <1>3, <4>1, <4>3, <4>4 DEF Follows
      <4> QED
        BY <1>3, <3>1, <3>2, <4>5 DEF NextIs
    <3> QED
      BY <3>3, <3>4
  <2> QED
    BY <1>2, <2>5, <2>6
<1> QED
  BY <1>7, <1>8, HearFacts

-----------------------------------------------------------------------------
(* The reader takes samples. *)

\* What a round takes lies behind what was read before; the buffer goes back to the
\* driver when all of it has been taken.
LEMMA RoundFacts ==
  ASSUME RingInv, NEW wanted \in Nat, wanted > 0, MicRound(wanted)
  PROVE  /\ Full > 0 /\ Len(mic_buf[cur_buf]) = MIC_BUF_LEN
         /\ IsSeq(Take(wanted)) /\ Len(Take(wanted)) \in 1 .. wanted
         /\ cur_off + Len(Take(wanted)) <= MIC_BUF_LEN
         /\ \A j \in 1 .. Len(Take(wanted)) : Take(wanted)[j] = mic_buf[cur_buf][cur_off + j]
         /\ heard' = heard /\ lost' = lost
         /\ \/ /\ cur_off + Len(Take(wanted)) = MIC_BUF_LEN
               /\ done' = [done EXCEPT ![cur_buf] = FALSE]
               /\ mic_buf' = [mic_buf EXCEPT ![cur_buf] = <<>>]
               /\ queue' = Append(queue, cur_buf)
               /\ cur_buf' = (cur_buf + 1) % MIC_N_BUF /\ cur_off' = 0
            \/ /\ cur_off + Len(Take(wanted)) < MIC_BUF_LEN
               /\ cur_off' = cur_off + Len(Take(wanted))
               /\ mic_buf' = mic_buf /\ done' = done /\ queue' = queue /\ cur_buf' = cur_buf
<1>1. /\ MIC_N_BUF \in Nat /\ MIC_N_BUF > 0 /\ MIC_BUF_LEN \in Nat /\ MIC_BUF_LEN > 0
      /\ Full \in 0 .. MIC_N_BUF /\ cur_off \in 0 .. MIC_BUF_LEN - 1
      /\ Ring(1) = cur_buf
  BY RingFacts
<1>2. done[Ring(1)]
  BY <1>1 DEF MicRound
<1>3. Full > 0 /\ Len(mic_buf[cur_buf]) = MIC_BUF_LEN
  <2>1. 1 \in 1 .. MIC_N_BUF
    BY <1>1
  <2>2. 1 <= Full
    BY <1>2, <2>1 DEF RingInv, RingOrder
  <2> QED
    BY <1>1, <2>1, <2>2 DEF RingInv, RingOrder
<1> DEFINE avail == MIC_BUF_LEN - cur_off
           n == IF wanted < avail THEN wanted ELSE avail
<1>4. n \in Nat /\ n > 0 /\ n <= wanted /\ cur_off + n <= MIC_BUF_LEN
  BY <1>1
<1>5. Take(wanted) = SubSeq(mic_buf[cur_buf], cur_off + 1, cur_off + n)
  BY <1>3 DEF Take
<1> HIDE DEF n
<1>6. cur_off + 1 \in Int /\ cur_off + n \in Int /\ cur_off + 1 <= cur_off + n
  BY <1>1, <1>4
<1>7. ((cur_off + n) - (cur_off + 1)) + 1 = n
  BY <1>1, <1>4
<1>8. /\ IsSeq(Take(wanted)) /\ Len(Take(wanted)) = n
      /\ \A j \in 1 .. n : Take(wanted)[j] = mic_buf[cur_buf][((cur_off + 1) + j) - 1]
  BY <1>5, <1>6, <1>7, PartSeq
<1>9. \A j \in 1 .. n : Take(wanted)[j] = mic_buf[cur_buf][cur_off + j]
  <2> TAKE j \in 1 .. n
  <2>1. ((cur_off + 1) + j) - 1 = cur_off + j
    BY <1>1, <1>4
  <2> QED
    BY <1>8, <2>1
<1>10. heard' = heard /\ lost' = lost
  BY DEF MicRound
<1>11. CASE cur_off + n >= MIC_BUF_LEN
  <2>1. cur_off + Len(Take(wanted)) >= Len(mic_buf[cur_buf])
    BY <1>3, <1>8, <1>11
  <2>2. /\ done' = [done EXCEPT ![cur_buf] = FALSE]
        /\ mic_buf' = [mic_buf EXCEPT ![cur_buf] = <<>>]
        /\ queue' = Append(queue, cur_buf)
        /\ cur_buf' = (cur_buf + 1) % MIC_N_BUF /\ cur_off' = 0
    BY <2>1 DEF MicRound
  <2>3. cur_off + n = MIC_BUF_LEN
    BY <1>1, <1>4, <1>11
  <2> QED
    BY <1>3, <1>4, <1>8, <1>9, <1>10, <2>2, <2>3
<1>12. CASE ~(cur_off + n >= MIC_BUF_LEN)
  <2>1. ~(cur_off + Len(Take(wanted)) >= Len(mic_buf[cur_buf]))
    BY <1>3, <1>8, <1>12
  <2>2. /\ cur_off' = cur_off + Len(Take(wanted))
        /\ mic_buf' = mic_buf /\ done' = done /\ queue' = queue /\ cur_buf' = cur_buf
    BY <2>1 DEF MicRound
  <2>3. cur_off + n < MIC_BUF_LEN
    BY <1>1, <1>4, <1>12
  <2> QED
    BY <1>3, <1>4, <1>8, <1>9, <1>10, <2>2, <2>3
<1> QED
  BY <1>11, <1>12

\* Neither does a round of mic_read, whether it empties the buffer or not.
LEMMA RoundKeepsRing ==
  ASSUME RingInv, NEW wanted \in Nat, wanted > 0, MicRound(wanted)
  PROVE  RingInv'
<1>1. RingType /\ RingOrder
  BY DEF RingInv
<1>2. /\ MIC_N_BUF \in Nat /\ MIC_N_BUF > 0 /\ MIC_BUF_LEN \in Nat /\ MIC_BUF_LEN > 0
      /\ Full \in 0 .. MIC_N_BUF /\ Len(queue) \in Nat /\ Full = MIC_N_BUF - Len(queue)
      /\ cur_off \in 0 .. MIC_BUF_LEN - 1 /\ heard \in Nat
      /\ \A k \in 1 .. MIC_N_BUF : Ring(k) \in Buffers
      /\ \A k, l \in 1 .. MIC_N_BUF : Ring(k) = Ring(l) => k = l
      /\ Ring(1) = cur_buf /\ cur_buf \in Buffers
  BY RingFacts DEF RingInv, RingType
<1>3. Full > 0 /\ Len(Take(wanted)) \in 1 .. wanted /\ heard' = heard
  BY RoundFacts
<1>4. CASE /\ cur_off + Len(Take(wanted)) < MIC_BUF_LEN
           /\ cur_off' = cur_off + Len(Take(wanted))
           /\ mic_buf' = mic_buf /\ done' = done /\ queue' = queue /\ cur_buf' = cur_buf
  <2>1. Full' = Full /\ \A k : Ring(k)' = Ring(k)
    BY <1>4 DEF Full, Ring
  <2>2. cur_off' \in 0 .. MIC_BUF_LEN - 1
    BY <1>2, <1>3, <1>4
  <2>3. RingType'
    BY <1>1, <1>3, <1>4, <2>2 DEF RingType
  <2>4. RingOrder'
    BY <1>1, <1>3, <1>4, <2>1 DEF RingOrder
  <2> QED
    BY <2>3, <2>4 DEF RingInv
<1>5. CASE /\ done' = [done EXCEPT ![cur_buf] = FALSE]
           /\ mic_buf' = [mic_buf EXCEPT ![cur_buf] = <<>>]
           /\ queue' = Append(queue, cur_buf)
           /\ cur_buf' = (cur_buf + 1) % MIC_N_BUF /\ cur_off' = 0
  <2>1. /\ cur_buf' \in Buffers
        /\ \A k \in 1 .. MIC_N_BUF - 1 : Ring(k)' = Ring(k + 1)
        /\ Ring(MIC_N_BUF)' = cur_buf
    BY <1>2, <1>5, RingTurns DEF Ring
  <2>2. /\ queue' \in Seq(Buffers) /\ Len(queue') = Len(queue) + 1
        /\ \A j \in 1 .. Len(queue) : queue'[j] = queue[j]
        /\ queue'[Len(queue) + 1] = cur_buf
    BY <1>1, <1>2, <1>5, AppendProperties DEF RingType
  <2>3. Full' = Full - 1
    BY <1>2, <2>2 DEF Full
  <2>4. <<>> \in Seq(Nat) /\ Len(<<>>) = 0
    BY EmptySeq
  <2>5. RingType'
    <3>1. Len(queue') <= MIC_N_BUF
      BY <1>2, <1>3, <2>2
    <3>2. mic_buf' \in [Buffers -> Seq(Nat)] /\ done' \in [Buffers -> BOOLEAN]
      BY <1>1, <1>2, <1>5, <2>4 DEF RingType
    <3>3. cur_off' \in 0 .. MIC_BUF_LEN - 1 /\ heard' \in Nat
      BY <1>2, <1>3, <1>5
    <3> QED
      BY <2>1, <2>2, <3>1, <3>2, <3>3 DEF RingType
  <2>6. DOMAIN mic_buf = Buffers /\ DOMAIN done = Buffers
    BY <1>1 DEF RingType
  <2>7. \A k \in 1 .. MIC_N_BUF - 1 :
          /\ k + 1 \in 1 .. MIC_N_BUF /\ k + 1 # 1 /\ Ring(k + 1) # cur_buf /\ Ring(k + 1) \in Buffers
    BY <1>2
  <2>8. \A k \in 1 .. MIC_N_BUF - 1 :
          mic_buf'[Ring(k)'] = mic_buf[Ring(k + 1)] /\ done'[Ring(k)'] = done[Ring(k + 1)]
    BY <1>5, <2>1, <2>6, <2>7
  <2>9. mic_buf'[Ring(MIC_N_BUF)'] = <<>> /\ ~done'[Ring(MIC_N_BUF)']
    BY <1>2, <1>5, <2>1, <2>6
  <2>10. \A j \in 1 .. Len(queue') : queue'[j] = RingOf(cur_buf', (Full - 1) + j)
    <3> TAKE j \in 1 .. Len(queue')
    <3>1. CASE j \in 1 .. Len(queue)
      <4>1. /\ (Full - 1) + j \in 1 .. MIC_N_BUF - 1
            /\ ((Full - 1) + j) + 1 = Full + j
        BY <1>2, <1>3, <3>1
      <4>2. queue[j] = Ring(Full + j)
        BY <1>1, <3>1 DEF RingOrder
      <4>3. \A k \in 1 .. MIC_N_BUF - 1 : RingOf(cur_buf', k) = Ring(k + 1)
        BY <2>1 DEF Ring
      <4> QED
        BY <2>2, <3>1, <4>1, <4>2, <4>3
    <3>2. CASE j = Len(queue) + 1
      <4>1. (Full - 1) + j = MIC_N_BUF
        BY <1>2, <3>2
      <4>2. RingOf(cur_buf', MIC_N_BUF) = cur_buf
        BY <2>1 DEF Ring
      <4> QED
        BY <2>2, <3>2, <4>1, <4>2
    <3> QED
      BY <1>2, <2>2, <3>1, <3>2
  <2>11. \A k \in 1 .. MIC_N_BUF : done'[Ring(k)'] <=> k <= Full - 1
    <3> TAKE k \in 1 .. MIC_N_BUF
    <3>1. CASE k = MIC_N_BUF
      <4>1. ~(k <= Full - 1)
        BY <1>2, <3>1
      <4> QED
        BY <2>9, <3>1, <4>1
    <3>2. CASE k # MIC_N_BUF
      <4>1. k \in 1 .. MIC_N_BUF - 1
        BY <1>2, <3>2
      <4>2. done[Ring(k + 1)] <=> k + 1 <= Full
        BY <1>1, <2>7, <4>1 DEF RingOrder
      <4>3. k + 1 <= Full <=> k <= Full - 1
        BY <1>2
      <4> QED
        BY <2>8, <4>1, <4>2, <4>3
    <3> QED
      BY <3>1, <3>2
  <2>12. \A k \in 1 .. MIC_N_BUF :
           /\ k <= Full - 1 => Len(mic_buf'[Ring(k)']) = MIC_BUF_LEN
           /\ k = (Full - 1) + 1 => Len(mic_buf'[Ring(k)']) < MIC_BUF_LEN
           /\ k > (Full - 1) + 1 => mic_buf'[Ring(k)'] = <<>>
    <3> TAKE k \in 1 .. MIC_N_BUF
    <3>1. CASE k = MIC_N_BUF
      <4>1. ~(k <= Full - 1) /\ Len(mic_buf'[Ring(k)']) = 0
        BY <1>2, <2>4, <2>9, <3>1
      <4> QED
        BY <1>2, <2>9, <3>1, <4>1
    <3>2. CASE k # MIC_N_BUF
      <4>1. k \in 1 .. MIC_N_BUF - 1
        BY <1>2, <3>2
      <4>2. /\ k + 1 <= Full => Len(mic_buf[Ring(k + 1)]) = MIC_BUF_LEN
            /\ k + 1 = Full + 1 => Len(mic_buf[Ring(k + 1)]) < MIC_BUF_LEN
            /\ k + 1 > Full + 1 => mic_buf[Ring(k + 1)] = <<>>
        BY <1>1, <2>7, <4>1 DEF RingOrder
      <4>3. /\ k <= Full - 1 => k + 1 <= Full
            /\ k = (Full - 1) + 1 => k + 1 = Full + 1
            /\ k > (Full - 1) + 1 => k + 1 > Full + 1
        BY <1>2
      <4> QED
        BY <2>8, <4>1, <4>2, <4>3
    <3> QED
      BY <3>1, <3>2
  <2>13. ~(cur_off' > 0)
    BY <1>5
  <2>14. RingOrder'
    <3>1. \A j \in 1 .. Len(queue') : queue'[j] = Ring(Full + j)'
      BY <2>3, <2>10 DEF Ring
    <3> QED
      BY <2>3, <2>11, <2>12, <2>13, <3>1 DEF RingOrder
  <2> QED
    BY <2>5, <2>14 DEF RingInv
<1> QED
  BY <1>4, <1>5, RoundFacts

\* The buffer given back takes only what was read out of the chain.
LEMMA RoundKeepsChain ==
  ASSUME RingInv, ChainInv, NEW wanted \in Nat, wanted > 0, MicRound(wanted)
  PROVE  ChainInv'
<1>1. RingOrder
  BY DEF RingInv
<1>2. /\ MIC_N_BUF \in Nat /\ MIC_N_BUF > 0 /\ MIC_BUF_LEN \in Nat /\ MIC_BUF_LEN > 0
      /\ \A k \in 1 .. MIC_N_BUF : Ring(k) \in Buffers
      /\ \A k, l \in 1 .. MIC_N_BUF : Ring(k) = Ring(l) => k = l
      /\ Ring(1) = cur_buf /\ cur_buf \in Buffers
  BY RingFacts DEF RingInv, RingType
<1>3. heard' = heard /\ lost' = lost
  BY RoundFacts
<1>4. \A a, b : (Follows(a, b)' <=> Follows(a, b)) /\ (Latest(a)' <=> Latest(a))
  BY <1>3 DEF Follows, Latest
<1>5. CASE mic_buf' = mic_buf /\ cur_buf' = cur_buf
  <2>1. \A k : Ring(k)' = Ring(k)
    BY <1>5 DEF Ring
  <2> QED
    BY <1>3, <1>5, <2>1 DEF ChainInv, Follows, Latest
<1>6. CASE mic_buf' = [mic_buf EXCEPT ![cur_buf] = <<>>] /\ cur_buf' = (cur_buf + 1) % MIC_N_BUF
  <2>1. /\ \A k \in 1 .. MIC_N_BUF - 1 : Ring(k)' = Ring(k + 1)
        /\ Ring(MIC_N_BUF)' = cur_buf
    BY <1>2, <1>6, RingTurns DEF Ring
  <2>2. DOMAIN mic_buf = Buffers
    BY DEF RingInv, RingType
  <2>3. mic_buf'[cur_buf] = <<>> /\ \A b \in Buffers : b # cur_buf => mic_buf'[b] = mic_buf[b]
    BY <1>2, <1>6, <2>2
  <2>4. \A k \in 1 .. MIC_N_BUF - 1 :
          k + 1 \in 1 .. MIC_N_BUF /\ mic_buf'[Ring(k)'] = mic_buf[Ring(k + 1)]
    BY <1>2, <2>1, <2>3
  <2>5. mic_buf'[Ring(MIC_N_BUF)'] = <<>> /\ Len(<<>>) = 0
    BY <2>1, <2>3, EmptySeq
  <2>6. \A b \in Buffers : \A j \in 1 .. Len(mic_buf'[b]) : mic_buf'[b][j] \in 1 .. heard'
    <3> TAKE b \in Buffers
    <3> TAKE j \in 1 .. Len(mic_buf'[b])
    <3>1. b # cur_buf
      BY <2>3, <2>5
    <3> QED
      BY <1>3, <2>3, <3>1 DEF ChainInv
  <2>7. \A b \in Buffers : \A j \in 1 .. Len(mic_buf'[b]) - 1 : Follows(mic_buf[b][j], mic_buf[b][j + 1])'
    <3> TAKE b \in Buffers
    <3> TAKE j \in 1 .. Len(mic_buf'[b]) - 1
    <3>1. b # cur_buf
      BY <2>3, <2>5
    <3>2. Follows(mic_buf[b][j], mic_buf[b][j + 1])
      BY <2>3, <3>1 DEF ChainInv
    <3> QED
      BY <1>3, <2>3, <3>1, <3>2 DEF Follows
  <2>8. \A k \in 1 .. MIC_N_BUF - 1 :
          mic_buf'[Ring(k + 1)'] # <<>> => Follows(mic_buf[Ring(k)][MIC_BUF_LEN], mic_buf[Ring(k + 1)][1])'
    <3> TAKE k \in 1 .. MIC_N_BUF - 1
    <3> HAVE mic_buf'[Ring(k + 1)'] # <<>>
    <3>1. k + 1 # MIC_N_BUF
      BY <2>5
    <3>2. k + 1 \in 1 .. MIC_N_BUF - 1
      BY <1>2, <3>1
    <3>3. mic_buf'[Ring(k)'] = mic_buf[Ring(k + 1)] /\ mic_buf'[Ring(k + 1)'] = mic_buf[Ring((k + 1) + 1)]
      BY <2>4, <3>2
    <3>4. Follows(mic_buf[Ring(k + 1)][MIC_BUF_LEN], mic_buf[Ring((k + 1) + 1)][1])
      BY <3>2, <3>3 DEF ChainInv
    <3> QED
      BY <1>3, <3>3, <3>4 DEF Follows
  <2>9. \A k \in 1 .. MIC_N_BUF :
          mic_buf'[Ring(k)'] # <<>> /\ (k < MIC_N_BUF => mic_buf'[Ring(k + 1)'] = <<>>)
            => Latest(mic_buf[Ring(k)][Len(mic_buf[Ring(k)])])'
    <3> TAKE k \in 1 .. MIC_N_BUF
    <3> HAVE mic_buf'[Ring(k)'] # <<>> /\ (k < MIC_N_BUF => mic_buf'[Ring(k + 1)'] = <<>>)
    <3>1. k # MIC_N_BUF
      BY <2>5
    <3>2. k \in 1 .. MIC_N_BUF - 1 /\ k < MIC_N_BUF /\ k + 1 \in 1 .. MIC_N_BUF
      BY <1>2, <3>1
    <3>3. mic_buf'[Ring(k)'] = mic_buf[Ring(k + 1)]
      BY <2>4, <3>2
    <3>4. k + 1 < MIC_N_BUF => mic_buf[Ring((k + 1) + 1)] = <<>>
      <4> HAVE k + 1 < MIC_N_BUF
      <4>1. k + 1 \in 1 .. MIC_N_BUF - 1
        BY <1>2, <3>2
      <4> QED
        BY <2>4, <3>2, <4>1
    <3>5. Latest(mic_buf[Ring(k + 1)][Len(mic_buf[Ring(k + 1)])])
      BY <3>2, <3>3, <3>4 DEF ChainInv
    <3> QED
      BY <1>3, <3>3, <3>5 DEF Latest
  <2> QED
    BY <2>6, <2>7, <2>8, <2>9 DEF ChainInv
<1> QED
  BY <1>5, <1>6, RoundFacts

\* A round takes consecutive samples, from the one to be read next on.
LEMMA RoundTakesNext ==
  ASSUME RingInv, ChainInv, NEW wanted \in Nat, wanted > 0, MicRound(wanted)
  PROVE  /\ \A j \in 1 .. Len(Take(wanted)) : Take(wanted)[j] \in 1 .. heard
         /\ \A j \in 1 .. Len(Take(wanted)) - 1 : Follows(Take(wanted)[j], Take(wanted)[j + 1])
         /\ \A a : NextIs(a) => Follows(a, Take(wanted)[1])
         /\ \A a : a = Take(wanted)[Len(Take(wanted))] => NextIs(a)'
<1>1. RingOrder
  BY DEF RingInv
<1>2. /\ MIC_N_BUF \in Nat /\ MIC_N_BUF > 0 /\ MIC_BUF_LEN \in Nat /\ MIC_BUF_LEN > 0
      /\ cur_off \in 0 .. MIC_BUF_LEN - 1
      /\ \A b \in Buffers : Len(mic_buf[b]) \in Nat /\ (mic_buf[b] = <<>> <=> Len(mic_buf[b]) = 0)
      /\ \A k \in 1 .. MIC_N_BUF : Ring(k) \in Buffers
      /\ \A k, l \in 1 .. MIC_N_BUF : Ring(k) = Ring(l) => k = l
      /\ Ring(1) = cur_buf /\ cur_buf \in Buffers
  BY RingFacts DEF RingInv, RingType
<1> DEFINE t == Take(wanted)
           n == Len(t)
           s == mic_buf[cur_buf]
<1>3. /\ Len(s) = MIC_BUF_LEN /\ n \in 1 .. wanted /\ cur_off + n <= MIC_BUF_LEN
      /\ \A j \in 1 .. n : t[j] = s[cur_off + j]
      /\ heard' = heard /\ lost' = lost
  BY RoundFacts
<1>4. /\ \A j \in 1 .. MIC_BUF_LEN : s[j] \in 1 .. heard
      /\ \A j \in 1 .. MIC_BUF_LEN - 1 : Follows(s[j], s[j + 1])
  BY <1>2, <1>3 DEF ChainInv
<1>5. /\ cur_off + n = MIC_BUF_LEN => /\ mic_buf' = [mic_buf EXCEPT ![cur_buf] = <<>>]
                                      /\ cur_buf' = (cur_buf + 1) % MIC_N_BUF /\ cur_off' = 0
      /\ cur_off + n < MIC_BUF_LEN => /\ cur_off' = cur_off + n
                                      /\ mic_buf' = mic_buf /\ cur_buf' = cur_buf
  BY <1>2, RoundFacts
<1> HIDE DEF t, n, s
<1>6. \A j \in 1 .. n : cur_off + j \in 1 .. MIC_BUF_LEN
  BY <1>2, <1>3
<1>7. \A j \in 1 .. n : t[j] \in 1 .. heard
  BY <1>3, <1>4, <1>6
<1>8. \A j \in 1 .. n - 1 : Follows(t[j], t[j + 1])
  <2> TAKE j \in 1 .. n - 1
  <2>1. j \in 1 .. n /\ j + 1 \in 1 .. n /\ cur_off + j \in 1 .. MIC_BUF_LEN - 1
        /\ cur_off + (j + 1) = (cur_off + j) + 1
    BY <1>2, <1>3
  <2>2. t[j] = s[cur_off + j] /\ t[j + 1] = s[(cur_off + j) + 1]
    BY <1>3, <2>1
  <2> QED
    BY <1>4, <2>1, <2>2
<1>9. ASSUME NEW a, NextIs(a)
      PROVE  Follows(a, t[1])
  <2>1. 1 \in 1 .. n
    BY <1>3
  <2>2. t[1] = s[cur_off + 1]
    BY <1>3, <2>1
  <2>3. CASE cur_off > 0
    <3>1. cur_off \in 1 .. MIC_BUF_LEN - 1
      BY <1>2, <2>3
    <3>2. a = s[cur_off]
      BY <1>9, <2>3 DEF NextIs, s
    <3> QED
      BY <1>4, <2>2, <3>1, <3>2
  <2>4. CASE ~(cur_off > 0)
    <3>1. s # <<>>
      BY <1>2, <1>3 DEF s
    <3>2. Follows(a, s[1])
      BY <1>9, <2>4, <3>1 DEF NextIs, s
    <3>3. cur_off = 0 /\ 0 + 1 = 1
      BY <1>2, <2>4
    <3> QED
      BY <2>2, <3>2, <3>3
  <2> QED
    BY <2>3, <2>4
<1>10. ASSUME NEW a, a = t[n]
       PROVE  NextIs(a)'
  <2>1. n \in 1 .. n /\ a = s[cur_off + n]
    BY <1>3, <1>10
  <2>2. CASE cur_off + n < MIC_BUF_LEN
    <3>1. cur_off' = cur_off + n /\ mic_buf' = mic_buf /\ cur_buf' = cur_buf
      BY <1>5, <2>2
    <3>2. cur_off' > 0
      BY <1>2, <1>3, <3>1
    <3> QED
      BY <2>1, <3>1, <3>2 DEF NextIs, s
  <2>3. CASE cur_off + n = MIC_BUF_LEN
    <3>1. /\ mic_buf' = [mic_buf EXCEPT ![cur_buf] = <<>>]
          /\ cur_buf' = (cur_buf + 1) % MIC_N_BUF /\ cur_off' = 0
      BY <1>5, <2>3
    <3>2. a = mic_buf[Ring(1)][MIC_BUF_LEN] /\ mic_buf[Ring(1)] # <<>>
          /\ Len(mic_buf[Ring(1)]) = MIC_BUF_LEN
      BY <1>2, <1>3, <2>1, <2>3 DEF s
    <3>3. DOMAIN mic_buf = Buffers
      BY DEF RingInv, RingType
    <3>4. ~(cur_off' > 0)
      BY <3>1
    <3>5. CASE MIC_N_BUF = 1
      <4>1. cur_buf' = cur_buf
        BY <1>2, <3>1, <3>5, RingTurns
      <4>2. mic_buf'[cur_buf'] = <<>>
        BY <1>2, <3>1, <3>3, <4>1
      <4>3. Latest(mic_buf[Ring(1)][Len(mic_buf[Ring(1)])])
        BY <3>2, <3>5 DEF ChainInv
      <4> QED
        BY <1>3, <3>2, <3>4, <4>2, <4>3 DEF NextIs, Latest
    <3>6. CASE MIC_N_BUF # 1
      <4>1. 1 \in 1 .. MIC_N_BUF - 1 /\ 1 \in 1 .. MIC_N_BUF /\ 1 + 1 \in 1 .. MIC_N_BUF
        BY <1>2, <3>6
      <4>2. cur_buf' = Ring(1 + 1)
        <5>1. RingOf(cur_buf', 1) = RingOf(cur_buf, 1 + 1)
          BY <1>2, <3>1, <4>1, RingTurns
        <5>2. cur_buf' \in Buffers
          BY <1>2, <3>1, RingTurns
        <5>3. RingOf(cur_buf', 1) = cur_buf'
          BY <5>2, RingTurns
        <5> QED
          BY <5>1, <5>3 DEF Ring
      <4>3. mic_buf'[cur_buf'] = mic_buf[Ring(1 + 1)]
        <5>1. Ring(1 + 1) # cur_buf /\ Ring(1 + 1) \in Buffers
          BY <1>2, <4>1
        <5> QED
          BY <3>1, <3>3, <4>2, <5>1
      <4>4. CASE mic_buf[Ring(1 + 1)] # <<>>
        <5>1. Follows(mic_buf[Ring(1)][MIC_BUF_LEN], mic_buf[Ring(1 + 1)][1])
          BY <4>1, <4>4 DEF ChainInv
        <5> QED
          BY <1>3, <3>2, <3>4, <4>3, <4>4, <5>1 DEF NextIs, Follows
      <4>5. CASE mic_buf[Ring(1 + 1)] = <<>>
        <5>1. Latest(mic_buf[Ring(1)][Len(mic_buf[Ring(1)])])
          BY <3>2, <4>1, <4>5 DEF ChainInv
        <5> QED
          BY <1>3, <3>2, <3>4, <4>3, <4>5, <5>1 DEF NextIs, Latest
      <4> QED
        BY <4>4, <4>5
    <3> QED
      BY <3>5, <3>6
  <2> QED
    BY <1>2, <1>3, <2>2, <2>3
<1> QED
  BY <1>7, <1>8, <1>9, <1>10 DEF t, n

\* The ring stands for what the property says of it.
LEMMA RingStands == RingInv => RingInOrder
<1> SUFFICES ASSUME RingInv PROVE RingInOrder
  OBVIOUS
<1>1. RingOrder /\ queue \in Seq(Buffers) /\ Len(queue) <= MIC_N_BUF
  BY DEF RingInv, RingType
<1>2. /\ MIC_N_BUF \in Nat /\ MIC_N_BUF > 0
      /\ Full \in 0 .. MIC_N_BUF /\ Len(queue) \in Nat /\ Full = MIC_N_BUF - Len(queue)
  BY RingFacts
<1> DEFINE ring == [k \in 1 .. MIC_N_BUF |-> (cur_buf + (k - 1)) % MIC_N_BUF]
<1>3. \A k \in 1 .. MIC_N_BUF : ring[k] = Ring(k)
  BY DEF Ring, RingOf
<1> HIDE DEF ring
<1>4. queue = SubSeq(ring, Full + 1, MIC_N_BUF)
  <2> DEFINE u == SubSeq(ring, Full + 1, MIC_N_BUF)
  <2>1. IsSeq(queue)
    BY <1>1, SeqIs
  <2>2. (MIC_N_BUF - (Full + 1)) + 1 = Len(queue)
    BY <1>2
  <2>3. /\ IsSeq(u) /\ Len(u) = (IF Full + 1 <= MIC_N_BUF THEN Len(queue) ELSE 0)
        /\ \A k \in 1 .. Len(queue) : u[k] = ring[((Full + 1) + k) - 1]
    BY <1>2, <2>2, PartSeq
  <2>4. Len(u) = Len(queue)
    BY <1>2, <2>3
  <2>5. \A k \in 1 .. Len(queue) : queue[k] = u[k]
    <3> TAKE k \in 1 .. Len(queue)
    <3>1. ((Full + 1) + k) - 1 = Full + k /\ Full + k \in 1 .. MIC_N_BUF
      BY <1>2
    <3> QED
      BY <1>1, <1>3, <2>3, <3>1 DEF RingOrder
  <2> HIDE DEF u
  <2>6. queue = u
    BY <2>1, <2>3, <2>4, <2>5, SameSeq
  <2> QED
    BY <2>6 DEF u
<1>5. \A k \in 1 .. MIC_N_BUF : done[ring[k]] <=> k <= Full
  BY <1>1, <1>3 DEF RingOrder
<1>6. \A k \in 1 .. MIC_N_BUF : mic_buf[ring[k]] # <<>> => k <= Full + 1
  BY <1>1, <1>2, <1>3 DEF RingOrder
<1> QED
  BY <1>1, <1>4, <1>5, <1>6 DEF RingInOrder, Full, ring
-----------------------------------------------------------------------------
(* The inductive invariant of the loop. *)

\* What has been assembled of the frame to be analysed next.
Seen ==
  IF lp = "prime" THEN got
  ELSE IF lp = "read" THEN SubSeq(frame, 1, FRAME_LEN - HOP_LEN) \o got
  ELSE frame

\* Every sample of a sequence was heard, right behind the one before.
InOrder(s) ==
  /\ \A j \in DOMAIN s : \E n \in 1 .. heard : s[j] = Heard(n)
  /\ \A j \in DOMAIN s : j > 1 => Follows(Number(s[j - 1]), Number(s[j]))

LoopType ==
  /\ lp \in {"prime", "send", "read", "end"}
  /\ frame = [j \in 1 .. FRAME_LEN |-> frame[j]]
  /\ IsSeq(got) /\ Len(got) < Wanted /\ IsSeq(sent)
  /\ Len(got) > 0 => source = "mic" /\ Reading
  /\ lp = "prime" => sent = <<>>
  /\ lp = "read" => sent # <<>>

\* The frame overlaps the one before it.
Overlap(prev, data, before) ==
  /\ prev = before.data[HOP_LEN]
  /\ \A j \in 1 .. FRAME_LEN - HOP_LEN : data[j] = before.data[HOP_LEN + j]

SentInv ==
  /\ \A k \in DOMAIN sent :
       /\ sent[k] = [prev |-> sent[k].prev, data |-> sent[k].data]
       /\ sent[k].data = [j \in 1 .. FRAME_LEN |-> sent[k].data[j]]
  /\ sent # <<>> => sent[1].prev = Silence
  /\ \A k \in DOMAIN sent : k > 1 => Overlap(sent[k].prev, sent[k].data, sent[k - 1])
  /\ sent = <<>> => preemph_state = Silence
  /\ sent # <<>> => Overlap(preemph_state, frame, sent[Len(sent)])

MicInv ==
  source = "mic" =>
    /\ InOrder(Seen)
    /\ Seen # <<>> => NextIs(Number(Seen[Len(Seen)]))
    /\ \A k \in DOMAIN sent : InOrder(sent[k].data)
    /\ pos = 0

\* The number of samples, and where the k-th frame ends.
Size == SamplesIn(file)
Hops(k) == k * HOP_LEN
FrameEnd(k) == Hops(k - 1) + FRAME_LEN

\* A frame of the file, from the sample behind so many hops.
FromFile(data, k, n) == \A j \in 1 .. n : data[j] = Sample(file, Hops(k) + j)

\* The file has samples behind frame k, but not a frame more.
Short(k) == Size < FrameEnd(k + 1) /\ IF k = 0 THEN Size > 0 ELSE FrameEnd(k) < Size

NoJunk(data) == \A j \in 1 .. FRAME_LEN : data[j] # Junk

WavInv ==
  source = "wav" =>
    /\ got = <<>>
    /\ WavAccepted(file) => Size \in Nat /\ pos \in 0 .. Size
    /\ \A k \in DOMAIN sent : FrameEnd(k) <= Size => FromFile(sent[k].data, k - 1, FRAME_LEN)
    /\ \A k \in DOMAIN sent : NoJunk(sent[k].data) \/ (Size < FRAME_LEN /\ Len(sent) = 1)
    /\ lp = "prime" => pos = 0
    /\ lp = "send" =>
         \/ /\ pos = FrameEnd(Len(sent) + 1)
            /\ FromFile(frame, Len(sent), FRAME_LEN)
         \/ pos = Size /\ Short(Len(sent))
    /\ lp = "read" =>
         \/ /\ pos = FrameEnd(Len(sent))
            /\ FromFile(frame, Len(sent), FRAME_LEN - HOP_LEN)
         \/ pos = Size /\ Short(Len(sent) - 1)
    /\ lp \in {"send", "read"} => NoJunk(frame) \/ (Size < FRAME_LEN /\ pos = Size)
    /\ lp = "end" /\ ~stopped /\ WavAccepted(file) =>
         \/ sent = <<>> /\ Size = 0
         \/ sent # <<>> /\ Size = FrameEnd(Len(sent))
         \/ sent # <<>> /\ Short(Len(sent) - 1)
    /\ ~WavAccepted(file) => lp = "end" /\ sent = <<>>

OtherInv ==
  source # "wav" =>
    /\ lp # "prime" => NoJunk(frame)
    /\ \A k \in DOMAIN sent : NoJunk(sent[k].data)
    /\ pos \in Nat

LoopInv == LoopType /\ SentInv /\ MicInv /\ WavInv /\ OtherInv

-----------------------------------------------------------------------------
(* Frames are filled and shifted. *)

\* Lengths and domains, from the loop's types.
LEMMA LoopFacts ==
  LoopType =>
    /\ HOP_LEN \in Nat /\ HOP_LEN > 0 /\ FRAME_LEN \in Nat /\ FRAME_LEN > HOP_LEN
    /\ Wanted \in {FRAME_LEN, HOP_LEN} /\ FRAME_LEN - Wanted \in 0 .. FRAME_LEN
    /\ IsSeq(frame) /\ Len(frame) = FRAME_LEN /\ DOMAIN frame = 1 .. FRAME_LEN
    /\ Len(got) \in Nat /\ DOMAIN got = 1 .. Len(got) /\ (got = <<>> <=> Len(got) = 0)
    /\ Len(sent) \in Nat /\ DOMAIN sent = 1 .. Len(sent) /\ (sent = <<>> <=> Len(sent) = 0)
<1> SUFFICES ASSUME LoopType
             PROVE  /\ HOP_LEN \in Nat /\ HOP_LEN > 0 /\ FRAME_LEN \in Nat /\ FRAME_LEN > HOP_LEN
                    /\ Wanted \in {FRAME_LEN, HOP_LEN} /\ FRAME_LEN - Wanted \in 0 .. FRAME_LEN
                    /\ IsSeq(frame) /\ Len(frame) = FRAME_LEN /\ DOMAIN frame = 1 .. FRAME_LEN
                    /\ Len(got) \in Nat /\ DOMAIN got = 1 .. Len(got) /\ (got = <<>> <=> Len(got) = 0)
                    /\ Len(sent) \in Nat /\ DOMAIN sent = 1 .. Len(sent) /\ (sent = <<>> <=> Len(sent) = 0)
  OBVIOUS
<1>1. HOP_LEN \in Nat /\ HOP_LEN > 0 /\ FRAME_LEN \in Nat /\ FRAME_LEN > HOP_LEN
  BY FramesAssumption
<1>2. Wanted \in {FRAME_LEN, HOP_LEN} /\ FRAME_LEN - Wanted \in 0 .. FRAME_LEN
  BY <1>1 DEF Wanted
<1>3. frame = [j \in 1 .. FRAME_LEN |-> frame[j]]
  BY DEF LoopType
<1>4. IsSeq(frame) /\ Len(frame) = FRAME_LEN
  BY <1>1, <1>3, FunIsSeq
<1>5. DOMAIN frame = 1 .. FRAME_LEN
  BY <1>4, SeqFacts
<1>6. IsSeq(got) /\ IsSeq(sent)
  BY DEF LoopType
<1>7. Len(got) \in Nat /\ DOMAIN got = 1 .. Len(got) /\ (got = <<>> <=> Len(got) = 0)
  BY <1>6, SeqFacts
<1>8. Len(sent) \in Nat /\ DOMAIN sent = 1 .. Len(sent) /\ (sent = <<>> <=> Len(sent) = 0)
  BY <1>6, SeqFacts
<1> QED
  BY <1>1, <1>2, <1>4, <1>5, <1>7, <1>8

\* Where the samples of a read go.
LEMMA IntoFacts ==
  ASSUME LoopType, NEW samples, IsSeq(samples), Len(samples) <= Wanted
  PROVE  /\ Into(samples) = [j \in 1 .. FRAME_LEN |-> Into(samples)[j]]
         /\ \A j \in 1 .. FRAME_LEN - Wanted : Into(samples)[j] = frame[j]
         /\ \A j \in 1 .. Len(samples) : Into(samples)[(FRAME_LEN - Wanted) + j] = samples[j]
         /\ \A j \in 1 .. FRAME_LEN :
              \/ Into(samples)[j] = frame[j]
              \/ \E k \in 1 .. Len(samples) : Into(samples)[j] = samples[k]
         /\ Len(samples) = Wanted =>
              \A j \in (FRAME_LEN - Wanted) + 1 .. FRAME_LEN :
                \E k \in 1 .. Len(samples) : Into(samples)[j] = samples[k]
<1>1. /\ FRAME_LEN \in Nat /\ FRAME_LEN - Wanted \in 0 .. FRAME_LEN /\ Wanted \in Nat
      /\ Len(samples) \in Nat
  BY LoopFacts, SeqFacts
<1> DEFINE kept == FRAME_LEN - Wanted
           n == Len(samples)
           At(j) == IF j \in kept + 1 .. kept + n THEN samples[j - kept] ELSE frame[j]
<1>2. Into(samples) = [j \in 1 .. FRAME_LEN |-> At(j)]
  BY Zenon DEF Into
<1>3. kept \in 0 .. FRAME_LEN /\ n \in Nat /\ n <= Wanted /\ kept + Wanted = FRAME_LEN
  BY <1>1
<1> HIDE DEF n
<1>4. \A j \in 1 .. FRAME_LEN : Into(samples)[j] = At(j)
  BY <1>2
<1>5. Into(samples) = [j \in 1 .. FRAME_LEN |-> Into(samples)[j]]
  BY <1>2
<1> HIDE DEF kept
<1>6. \A j \in 1 .. kept : Into(samples)[j] = frame[j]
  <2> TAKE j \in 1 .. kept
  <2>1. j \in 1 .. FRAME_LEN /\ ~(j \in kept + 1 .. kept + n)
    BY <1>1, <1>3
  <2> QED
    BY <1>4, <2>1
<1>7. \A j \in 1 .. n : Into(samples)[kept + j] = samples[j]
  <2> TAKE j \in 1 .. n
  <2>1. kept + j \in kept + 1 .. kept + n /\ kept + j \in 1 .. FRAME_LEN /\ (kept + j) - kept = j
    BY <1>1, <1>3
  <2> QED
    BY <1>4, <2>1
<1>8. \A j \in 1 .. FRAME_LEN :
        Into(samples)[j] = frame[j] \/ \E k \in 1 .. n : Into(samples)[j] = samples[k]
  <2> TAKE j \in 1 .. FRAME_LEN
  <2>1. CASE j \in kept + 1 .. kept + n
    <3>1. j - kept \in 1 .. n
      BY <1>3, <2>1
    <3> QED
      BY <1>4, <2>1, <3>1
  <2> QED
    BY <1>4, <2>1
<1>9. n = Wanted =>
        \A j \in kept + 1 .. FRAME_LEN : \E k \in 1 .. n : Into(samples)[j] = samples[k]
  <2> HAVE n = Wanted
  <2> TAKE j \in kept + 1 .. FRAME_LEN
  <2>1. j \in 1 .. FRAME_LEN /\ j - kept \in 1 .. n /\ j \in kept + 1 .. kept + n
    BY <1>1, <1>3
  <2> QED
    BY <1>4, <2>1
<1> QED
  BY <1>5, <1>6, <1>7, <1>8, <1>9 DEF kept, n

\* The shift moves the tail of the frame to its start.
LEMMA ShiftedFacts ==
  LoopType => /\ Shifted = [j \in 1 .. FRAME_LEN |-> Shifted[j]]
              /\ \A j \in 1 .. FRAME_LEN - HOP_LEN : Shifted[j] = frame[HOP_LEN + j]
              /\ \A j \in 1 .. FRAME_LEN : \E k \in 1 .. FRAME_LEN : Shifted[j] = frame[k]
<1> SUFFICES ASSUME LoopType
             PROVE  /\ Shifted = [j \in 1 .. FRAME_LEN |-> Shifted[j]]
                    /\ \A j \in 1 .. FRAME_LEN - HOP_LEN : Shifted[j] = frame[HOP_LEN + j]
                    /\ \A j \in 1 .. FRAME_LEN : \E k \in 1 .. FRAME_LEN : Shifted[j] = frame[k]
  OBVIOUS
<1>1. HOP_LEN \in Nat /\ HOP_LEN > 0 /\ FRAME_LEN \in Nat /\ FRAME_LEN > HOP_LEN
  BY FramesAssumption
<1>2. \A j \in 1 .. FRAME_LEN :
        Shifted[j] = IF j + HOP_LEN <= FRAME_LEN THEN frame[j + HOP_LEN] ELSE frame[j]
  BY DEF Shifted
<1>3. Shifted = [j \in 1 .. FRAME_LEN |-> Shifted[j]]
  BY DEF Shifted
<1>4. \A j \in 1 .. FRAME_LEN - HOP_LEN :
        j \in 1 .. FRAME_LEN /\ j + HOP_LEN <= FRAME_LEN /\ j + HOP_LEN = HOP_LEN + j
  BY <1>1
<1>5. \A j \in 1 .. FRAME_LEN - HOP_LEN : Shifted[j] = frame[HOP_LEN + j]
  BY <1>2, <1>4
<1>6. \A j \in 1 .. FRAME_LEN : \E k \in 1 .. FRAME_LEN : Shifted[j] = frame[k]
  <2> TAKE j \in 1 .. FRAME_LEN
  <2>1. CASE j + HOP_LEN <= FRAME_LEN
    <3>1. j + HOP_LEN \in 1 .. FRAME_LEN
      BY <1>1, <2>1
    <3> QED
      BY <1>2, <2>1, <3>1
  <2> QED
    BY <1>2, <2>1
<1> QED
  BY <1>3, <1>5, <1>6

\* What has been assembled, sample by sample.
LEMMA SeenFacts ==
  LoopType =>
    /\ IsSeq(Seen)
    /\ lp = "prime" => Seen = got
    /\ lp = "read" =>
         /\ Len(Seen) = (FRAME_LEN - HOP_LEN) + Len(got)
         /\ \A j \in 1 .. FRAME_LEN - HOP_LEN : Seen[j] = frame[j]
         /\ \A j \in 1 .. Len(got) : Seen[(FRAME_LEN - HOP_LEN) + j] = got[j]
    /\ lp \in {"send", "end"} => Seen = frame
    /\ Reading => Len(Seen) = (FRAME_LEN - Wanted) + Len(got)
<1> SUFFICES ASSUME LoopType
             PROVE  /\ IsSeq(Seen)
                    /\ lp = "prime" => Seen = got
                    /\ lp = "read" =>
                         /\ Len(Seen) = (FRAME_LEN - HOP_LEN) + Len(got)
                         /\ \A j \in 1 .. FRAME_LEN - HOP_LEN : Seen[j] = frame[j]
                         /\ \A j \in 1 .. Len(got) : Seen[(FRAME_LEN - HOP_LEN) + j] = got[j]
                    /\ lp \in {"send", "end"} => Seen = frame
                    /\ Reading => Len(Seen) = (FRAME_LEN - Wanted) + Len(got)
  OBVIOUS
<1>1. /\ HOP_LEN \in Nat /\ HOP_LEN > 0 /\ FRAME_LEN \in Nat /\ FRAME_LEN > HOP_LEN
      /\ IsSeq(frame) /\ Len(got) \in Nat
  BY LoopFacts
<1>2. IsSeq(got) /\ lp \in {"prime", "send", "read", "end"}
  BY DEF LoopType
<1>3. CASE lp = "prime"
  <2>1. Seen = got /\ Wanted = FRAME_LEN
    BY <1>3 DEF Seen, Wanted
  <2>2. FRAME_LEN - FRAME_LEN + Len(got) = Len(got)
    BY <1>1
  <2> QED
    BY <1>2, <1>3, <2>1, <2>2
<1>4. CASE lp = "read"
  <2> DEFINE u == SubSeq(frame, 1, FRAME_LEN - HOP_LEN)
  <2>1. Seen = u \o got /\ Wanted = HOP_LEN
    BY <1>4 DEF Seen, Wanted
  <2>2. ((FRAME_LEN - HOP_LEN) - 1) + 1 = FRAME_LEN - HOP_LEN /\ 1 <= FRAME_LEN - HOP_LEN
        /\ \A k \in 1 .. FRAME_LEN - HOP_LEN : (1 + k) - 1 = k
    BY <1>1
  <2>3. IsSeq(u) /\ Len(u) = FRAME_LEN - HOP_LEN /\ \A k \in 1 .. FRAME_LEN - HOP_LEN : u[k] = frame[(1 + k) - 1]
    BY <1>1, <2>2, PartSeq
  <2> HIDE DEF u
  <2>4. /\ IsSeq(u \o got) /\ Len(u \o got) = (FRAME_LEN - HOP_LEN) + Len(got)
        /\ \A k \in 1 .. FRAME_LEN - HOP_LEN : (u \o got)[k] = u[k]
        /\ \A k \in 1 .. Len(got) : (u \o got)[(FRAME_LEN - HOP_LEN) + k] = got[k]
    <3>1. IsSeq(u) /\ IsSeq(got)
      BY <1>2, <2>3
    <3>2. /\ IsSeq(u \o got) /\ Len(u \o got) = Len(u) + Len(got)
          /\ \A k \in 1 .. Len(u) : (u \o got)[k] = u[k]
          /\ \A k \in 1 .. Len(got) : (u \o got)[Len(u) + k] = got[k]
      BY <3>1, ConcatSeq
    <3>3. Len(u) = FRAME_LEN - HOP_LEN
      BY <2>3
    <3> QED
      BY <3>2, <3>3, Zenon
  <2>5. \A k \in 1 .. FRAME_LEN - HOP_LEN : (u \o got)[k] = frame[k]
    BY <2>2, <2>3, <2>4
  <2> QED
    BY <1>4, <2>1, <2>4, <2>5
<1>5. CASE lp \in {"send", "end"}
  <2>1. Seen = frame /\ ~Reading
    BY <1>5 DEF Seen, Reading
  <2> QED
    BY <1>1, <1>5, <2>1
<1> QED
  BY <1>2, <1>3, <1>4, <1>5

-----------------------------------------------------------------------------
(* The steps of the loop: frames overlap. *)

\* A read of so many samples, complete or at the end of the stream.
LEMMA ReadKeepsFrames ==
  ASSUME LoopType, SentInv, Reading,
         NEW samples, IsSeq(samples), Len(samples) <= Wanted,
         ReadDone(samples), got' = <<>>,
         UNCHANGED <<source, preemph_state, sent>>
  PROVE  LoopType' /\ SentInv'
<1>1. /\ HOP_LEN \in Nat /\ HOP_LEN > 0 /\ FRAME_LEN \in Nat /\ FRAME_LEN > HOP_LEN
      /\ (sent = <<>> <=> Len(sent) = 0) /\ DOMAIN sent = 1 .. Len(sent)
  BY LoopFacts
<1>2. frame' = frame \/ frame' = Into(samples)
  BY DEF ReadDone
<1>3. lp' \in {"send", "end"}
  BY DEF ReadDone
<1>4. frame' = [j \in 1 .. FRAME_LEN |-> frame'[j]]
  BY <1>2, IntoFacts DEF LoopType
<1>5. IsSeq(got') /\ Len(got') = 0
  BY EmptyIsSeq
<1>6. Wanted' > 0
  BY <1>1 DEF Wanted
<1>7. LoopType'
  BY <1>3, <1>4, <1>5, <1>6 DEF LoopType
<1>8. sent # <<>> => \A j \in 1 .. FRAME_LEN - HOP_LEN : frame'[j] = frame[j]
  <2> HAVE sent # <<>>
  <2>1. lp = "read" /\ Wanted = HOP_LEN
    BY DEF LoopType, Reading, Wanted
  <2> QED
    BY <1>2, <2>1, IntoFacts
<1>9. SentInv'
  <2>1. /\ \A k \in DOMAIN sent' :
             /\ sent'[k] = [prev |-> sent'[k].prev, data |-> sent'[k].data]
             /\ sent'[k].data = [j \in 1 .. FRAME_LEN |-> sent'[k].data[j]]
        /\ sent' # <<>> => sent'[1].prev = Silence
        /\ sent' = <<>> => preemph_state' = Silence
    BY DEF SentInv
  <2>2. \A k \in DOMAIN sent' : k > 1 => Overlap(sent'[k].prev, sent'[k].data, sent'[k - 1])
    BY DEF SentInv
  <2>3. sent' # <<>> => Overlap(preemph_state', frame', sent'[Len(sent')])
    BY <1>8 DEF SentInv, Overlap
  <2> QED
    BY <2>1, <2>2, <2>3 DEF SentInv
<1> QED
  BY <1>7, <1>9

\* The frame sent overlaps the shifted one.
LEMMA SendKeepsFrames == LoopType /\ SentInv /\ SendFrame => LoopType' /\ SentInv'
<1> SUFFICES ASSUME LoopType, SentInv, SendFrame PROVE LoopType' /\ SentInv'
  OBVIOUS
<1>1. /\ HOP_LEN \in Nat /\ HOP_LEN > 0 /\ FRAME_LEN \in Nat /\ FRAME_LEN > HOP_LEN
      /\ (sent = <<>> <=> Len(sent) = 0) /\ DOMAIN sent = 1 .. Len(sent) /\ Len(sent) \in Nat
      /\ IsSeq(sent)
  BY LoopFacts DEF LoopType
<1> DEFINE f == [prev |-> preemph_state, data |-> frame]
<1>2. sent' = Append(sent, f)
  BY DEF SendFrame, MfccFrame
<1>3. /\ IsSeq(sent') /\ Len(sent') = Len(sent) + 1
      /\ \A k \in 1 .. Len(sent) : sent'[k] = sent[k]
      /\ sent'[Len(sent) + 1] = f
  BY <1>1, <1>2, AppendSeq
<1>4. DOMAIN sent' = 1 .. Len(sent) + 1 /\ (sent' = <<>> <=> Len(sent') = 0)
  BY <1>3, SeqFacts
<1>5. preemph_state' = frame[HOP_LEN] /\ frame' = Shifted /\ lp' = "read" /\ got' = got /\ source' = source
  BY DEF SendFrame, MfccState
<1>6. lp = "send" /\ ~Reading
  BY DEF SendFrame, Reading
<1>7. Len(got) = 0 /\ IsSeq(got)
  <2>1. Len(got) \in Nat /\ ~(Len(got) > 0)
    BY <1>6, LoopFacts DEF LoopType
  <2> QED
    BY <2>1 DEF LoopType
<1>8. LoopType'
  <2>1. frame' = [j \in 1 .. FRAME_LEN |-> frame'[j]]
    BY <1>5, ShiftedFacts
  <2>2. Wanted' > 0
    BY <1>1 DEF Wanted
  <2>3. sent' # <<>>
    BY <1>1, <1>3, <1>4
  <2> QED
    BY <1>3, <1>5, <1>7, <2>1, <2>2, <2>3 DEF LoopType
<1>9. f.prev = preemph_state /\ f.data = frame /\ f = [prev |-> f.prev, data |-> f.data]
  OBVIOUS
<1> HIDE DEF f
<1>10. SentInv'
  <2>1. ASSUME NEW k \in DOMAIN sent'
        PROVE  /\ sent'[k] = [prev |-> sent'[k].prev, data |-> sent'[k].data]
               /\ sent'[k].data = [j \in 1 .. FRAME_LEN |-> sent'[k].data[j]]
               /\ k > 1 => Overlap(sent'[k].prev, sent'[k].data, sent'[k - 1])
    <3>1. CASE k \in 1 .. Len(sent)
      <4>1. sent'[k] = sent[k] /\ (k > 1 => sent'[k - 1] = sent[k - 1])
        BY <1>1, <1>3, <3>1
      <4> QED
        BY <1>1, <3>1, <4>1 DEF SentInv
    <3>2. CASE k = Len(sent) + 1
      <4>1. sent'[k] = f
        BY <1>3, <3>2
      <4>2. frame = [j \in 1 .. FRAME_LEN |-> frame[j]]
        BY DEF LoopType
      <4>3. k > 1 => Overlap(f.prev, f.data, sent'[k - 1])
        <5> HAVE k > 1
        <5>1. k - 1 = Len(sent) /\ Len(sent) \in 1 .. Len(sent)
          BY <1>1, <3>2
        <5>2. sent'[k - 1] = sent[Len(sent)] /\ sent # <<>>
          BY <1>1, <1>3, <5>1
        <5>3. Overlap(preemph_state, frame, sent[Len(sent)])
          BY <5>2 DEF SentInv
        <5> QED
          BY <1>9, <5>2, <5>3
      <4> QED
        BY <1>9, <4>1, <4>2, <4>3
    <3> QED
      BY <1>1, <1>4, <2>1, <3>1, <3>2
  <2>2. sent'[1].prev = Silence
    <3>1. CASE Len(sent) = 0
      <4>1. sent = <<>> /\ sent'[1] = f
        BY <1>1, <1>3, <3>1
      <4> QED
        BY <1>9, <4>1 DEF SentInv
    <3>2. CASE Len(sent) > 0
      <4>1. 1 \in 1 .. Len(sent) /\ sent # <<>>
        BY <1>1, <3>2
      <4> QED
        BY <1>3, <4>1 DEF SentInv
    <3> QED
      BY <1>1, <3>1, <3>2
  <2>3. sent' # <<>>
    BY <1>1, <1>3, <1>4
  <2>4. Overlap(preemph_state', frame', sent'[Len(sent')])
    <3>1. sent'[Len(sent')] = f
      BY <1>3
    <3>2. \A j \in 1 .. FRAME_LEN - HOP_LEN : frame'[j] = frame[HOP_LEN + j]
      BY <1>5, ShiftedFacts
    <3> QED
      BY <1>5, <1>9, <3>1, <3>2 DEF Overlap
  <2> QED
    BY <2>1, <2>2, <2>3, <2>4 DEF SentInv
<1> QED
  BY <1>8, <1>10

\* A stop sends nothing.
LEMMA StopKeepsFrames == LoopType /\ SentInv /\ Stop => LoopType' /\ SentInv'
<1> SUFFICES ASSUME LoopType, SentInv, Stop PROVE LoopType' /\ SentInv'
  OBVIOUS
<1>1. UNCHANGED <<source, frame, got, preemph_state, sent>> /\ lp = "send" /\ lp' = "end"
  BY DEF Stop
<1>2. Wanted' = Wanted /\ ~Reading
  BY <1>1 DEF Wanted, Reading
<1>3. LoopType'
  BY <1>1, <1>2 DEF LoopType
<1>4. SentInv'
  BY <1>1 DEF SentInv, Overlap
<1> QED
  BY <1>3, <1>4

-----------------------------------------------------------------------------
(* The microphone. *)

\* What a round adds to what has been assembled.
LEMMA MicReadFacts ==
  ASSUME LoopType, RingInv, ReadMic
  PROVE  LET w == Wanted - Len(got)
             t == Take(w)
             h == [k \in DOMAIN t |-> Heard(t[k])]
         IN  /\ w \in Nat /\ w > 0 /\ MicRound(w)
             /\ IsSeq(t) /\ Len(t) \in 1 .. w
             /\ IsSeq(got \o h) /\ Len(got \o h) = Len(got) + Len(t) /\ Len(got \o h) <= Wanted
             /\ \A k \in 1 .. Len(got) : (got \o h)[k] = got[k]
             /\ \A k \in 1 .. Len(t) : (got \o h)[Len(got) + k] = Heard(t[k])
             /\ \/ Len(got \o h) = Wanted /\ ReadDone(got \o h) /\ got' = <<>>
                \/ Len(got \o h) < Wanted /\ got' = got \o h /\ lp' = lp /\ frame' = frame
             /\ UNCHANGED <<source, file, pos, preemph_state, sent, stopped>>
             /\ Reading /\ source = "mic"
<1> DEFINE w == Wanted - Len(got)
           t == Take(w)
           h == [k \in DOMAIN t |-> Heard(t[k])]
<1>1. Wanted \in Nat /\ Len(got) \in Nat
  <2>1. Wanted \in {FRAME_LEN, HOP_LEN} /\ FRAME_LEN \in Nat /\ HOP_LEN \in Nat /\ Len(got) \in Nat
    BY LoopFacts
  <2> QED
    BY <2>1
<1>2. w \in Nat /\ w > 0
  BY <1>1 DEF LoopType
<1>3. MicRound(w)
  BY DEF ReadMic
<1> HIDE DEF w
<1>4. IsSeq(t) /\ Len(t) \in 1 .. w
  BY <1>2, <1>3, RoundFacts
<1> HIDE DEF t
<1>5. Len(t) \in Nat /\ DOMAIN t = 1 .. Len(t)
  BY <1>4, SeqFacts
<1>6. h = [k \in 1 .. Len(t) |-> Heard(t[k])]
  BY <1>5
<1>7. h = [k \in 1 .. Len(t) |-> h[k]] /\ \A k \in 1 .. Len(t) : h[k] = Heard(t[k])
  BY <1>6
<1> HIDE DEF h
<1>8. IsSeq(h) /\ Len(h) = Len(t)
  BY <1>5, <1>7, FunIsSeq
<1>9. IsSeq(got)
  BY DEF LoopType
<1>10. /\ IsSeq(got \o h) /\ Len(got \o h) = Len(got) + Len(h)
       /\ \A k \in 1 .. Len(got) : (got \o h)[k] = got[k]
       /\ \A k \in 1 .. Len(h) : (got \o h)[Len(got) + k] = h[k]
  <2>1. IsSeq(got) /\ IsSeq(h)
    BY <1>8, <1>9
  <2> QED
    BY <2>1, ConcatSeq
<1>11. \A k \in 1 .. Len(t) : (got \o h)[Len(got) + k] = Heard(t[k])
  BY <1>7, <1>8, <1>10
<1>12. Len(got \o h) \in Nat /\ Len(got \o h) = Len(got) + Len(t) /\ Len(got \o h) <= Wanted
  BY <1>1, <1>4, <1>5, <1>8, <1>10 DEF w
<1>13. \/ Len(got \o h) = Wanted /\ ReadDone(got \o h) /\ got' = <<>>
       \/ Len(got \o h) # Wanted /\ got' = got \o h /\ lp' = lp /\ frame' = frame
  BY DEF ReadMic, h, t, w
<1>14. \/ Len(got \o h) = Wanted /\ ReadDone(got \o h) /\ got' = <<>>
       \/ Len(got \o h) < Wanted /\ got' = got \o h /\ lp' = lp /\ frame' = frame
  BY <1>1, <1>12, <1>13
<1>15. UNCHANGED <<source, file, pos, preemph_state, sent, stopped>> /\ Reading /\ source = "mic"
  BY DEF ReadMic
<1> QED
  BY <1>2, <1>3, <1>4, <1>10, <1>11, <1>12, <1>14, <1>15 DEF h, t, w

\* Samples that were heard have their numbers.
LEMMA InOrderFacts ==
  ASSUME NEW s, InOrder(s)
  PROVE  /\ \A j \in DOMAIN s : Number(s[j]) \in 1 .. heard /\ s[j] = Heard(Number(s[j]))
         /\ \A j \in DOMAIN s : j > 1 => Follows(Number(s[j - 1]), Number(s[j]))
<1>1. \A j \in DOMAIN s : \E n \in 1 .. heard : s[j] = Heard(n)
  BY DEF InOrder
<1>2. ASSUME NEW j \in DOMAIN s
      PROVE  Number(s[j]) \in 1 .. heard /\ s[j] = Heard(Number(s[j]))
  <2>1. PICK n \in 1 .. heard : s[j] = Heard(n)
    BY <1>1
  <2>2. Number(s[j]) = n
    BY <2>1, HeardNumber, Zenon
  <2> QED
    BY <2>1, <2>2, Zenon
<1> QED
  BY <1>2 DEF InOrder

\* A round that does not complete a read changes no frame.
LEMMA MicReadKeepsTypes ==
  LoopType /\ SentInv /\ RingInv /\ ReadMic => LoopType' /\ SentInv'
<1> SUFFICES ASSUME LoopType, SentInv, RingInv, ReadMic PROVE LoopType' /\ SentInv'
  OBVIOUS
<1> DEFINE t == Take(Wanted - Len(got))
           h == [k \in DOMAIN t |-> Heard(t[k])]
<1>1. /\ IsSeq(got \o h) /\ Len(got \o h) <= Wanted
      /\ \/ Len(got \o h) = Wanted /\ ReadDone(got \o h) /\ got' = <<>>
         \/ Len(got \o h) < Wanted /\ got' = got \o h /\ lp' = lp /\ frame' = frame
      /\ UNCHANGED <<source, file, pos, preemph_state, sent, stopped>>
      /\ Reading /\ source = "mic"
  BY MicReadFacts
<1> HIDE DEF h
<1>2. CASE ReadDone(got \o h) /\ got' = <<>>
  BY <1>1, <1>2, ReadKeepsFrames
<1>3. CASE Len(got \o h) < Wanted /\ got' = got \o h /\ lp' = lp /\ frame' = frame
  <2>1. Wanted' = Wanted /\ Reading'
    BY <1>1, <1>3 DEF Wanted, Reading
  <2>2. LoopType'
    BY <1>1, <1>3, <2>1 DEF LoopType
  <2>3. SentInv'
    BY <1>1, <1>3 DEF SentInv, Overlap
  <2> QED
    BY <2>2, <2>3
<1> QED
  BY <1>1, <1>2, <1>3

\* A read puts what it takes behind what has been assembled.
LEMMA MicReadAssembles ==
  ASSUME LoopType, SentInv, RingInv, ReadMic
  PROVE  LET t == Take(Wanted - Len(got))
         IN  /\ Len(Seen') = Len(Seen) + Len(t)
             /\ \A j \in 1 .. Len(Seen) : Seen'[j] = Seen[j]
             /\ \A j \in 1 .. Len(t) : Seen'[Len(Seen) + j] = Heard(t[j])
<1> DEFINE w == Wanted - Len(got)
           t == Take(w)
           h == [k \in DOMAIN t |-> Heard(t[k])]
           s == got \o h
<1>1. /\ w \in Nat /\ w > 0
      /\ IsSeq(t) /\ Len(t) \in 1 .. w
      /\ IsSeq(s) /\ Len(s) = Len(got) + Len(t) /\ Len(s) <= Wanted
      /\ \A k \in 1 .. Len(got) : s[k] = got[k]
      /\ \A k \in 1 .. Len(t) : s[Len(got) + k] = Heard(t[k])
      /\ \/ Len(s) = Wanted /\ ReadDone(s) /\ got' = <<>>
         \/ Len(s) < Wanted /\ got' = s /\ lp' = lp /\ frame' = frame
      /\ Reading
  BY MicReadFacts
<1> HIDE DEF s, h, t, w
<1>2. LoopType'
  BY MicReadKeepsTypes
<1>3. /\ FRAME_LEN \in Nat /\ HOP_LEN \in Nat /\ FRAME_LEN > HOP_LEN /\ HOP_LEN > 0
      /\ Len(got) \in Nat /\ Wanted \in Nat /\ FRAME_LEN - Wanted \in 0 .. FRAME_LEN
  <2>1. /\ FRAME_LEN \in Nat /\ HOP_LEN \in Nat /\ FRAME_LEN > HOP_LEN /\ HOP_LEN > 0 /\ Len(got) \in Nat
        /\ Wanted \in {FRAME_LEN, HOP_LEN} /\ FRAME_LEN - Wanted \in 0 .. FRAME_LEN
    BY LoopFacts
  <2> QED
    BY <2>1
<1>4. Len(t) \in Nat
  BY <1>1
<1>5. lp \in {"prime", "read"}
  BY <1>1 DEF Reading
<1> DEFINE kept == FRAME_LEN - Wanted
<1>6. /\ Len(Seen) = kept + Len(got)
      /\ \A j \in 1 .. kept : Seen[j] = frame[j]
      /\ \A j \in 1 .. Len(got) : Seen[kept + j] = got[j]
  <2>1. CASE lp = "prime"
    <3>1. kept = 0 /\ Seen = got
      BY <1>3, <2>1, SeenFacts DEF Wanted
    <3>2. \A j \in 1 .. Len(got) : 0 + j = j
      OBVIOUS
    <3> QED
      BY <1>3, <3>1, <3>2
  <2>2. CASE lp = "read"
    <3>1. kept = FRAME_LEN - HOP_LEN
      BY <2>2 DEF Wanted
    <3> QED
      BY <2>2, <3>1, SeenFacts
  <2> QED
    BY <1>5, <2>1, <2>2
<1>7. CASE Len(s) = Wanted /\ ReadDone(s) /\ got' = <<>>
  <2>1. s # <<>>
    <3>1. Len(s) > 0
      BY <1>1, <1>3, <1>4
    <3> QED
      BY <3>1, EmptyIsSeq
  <2>2. lp' = "send" /\ frame' = Into(s)
    BY <1>7, <2>1 DEF ReadDone
  <2>3. Seen' = Into(s)
    BY <2>2 DEF Seen
  <2>4. Len(Seen') = FRAME_LEN
    <3>1. Into(s) = [j \in 1 .. FRAME_LEN |-> Into(s)[j]]
      BY <1>1, IntoFacts
    <3>2. Len(Into(s)) = FRAME_LEN
      BY <1>3, <3>1, FunIsSeq
    <3> QED
      BY <2>3, <3>2
  <2>5. /\ \A j \in 1 .. kept : Into(s)[j] = frame[j]
        /\ \A j \in 1 .. Len(s) : Into(s)[kept + j] = s[j]
    BY <1>1, IntoFacts
  <2>6. FRAME_LEN = (kept + Len(got)) + Len(t)
    BY <1>1, <1>3, <1>4, <1>7
  <2>7. kept \in Nat
    BY <1>3
  <2> HIDE DEF kept
  <2>8. \A j \in 1 .. kept + Len(got) : Into(s)[j] = Seen[j]
    <3> TAKE j \in 1 .. kept + Len(got)
    <3>1. CASE j <= kept
      <4>1. j \in 1 .. kept
        BY <3>1
      <4> QED
        BY <1>6, <2>5, <4>1
    <3>2. CASE ~(j <= kept)
      <4>1. j - kept \in 1 .. Len(got) /\ kept + (j - kept) = j /\ j - kept \in 1 .. Len(s)
        BY <1>1, <1>3, <1>4, <2>7, <3>2
      <4>2. Seen[kept + (j - kept)] = got[j - kept] /\ s[j - kept] = got[j - kept]
        BY <1>1, <1>6, <4>1
      <4>3. Into(s)[kept + (j - kept)] = s[j - kept]
        BY <2>5, <4>1
      <4> QED
        BY <4>1, <4>2, <4>3
    <3> QED
      BY <3>1, <3>2
  <2>9. \A j \in 1 .. Len(t) : Into(s)[(kept + Len(got)) + j] = Heard(t[j])
    <3> TAKE j \in 1 .. Len(t)
    <3>1. Len(got) + j \in 1 .. Len(s) /\ kept + (Len(got) + j) = (kept + Len(got)) + j
      BY <1>1, <1>3, <1>4, <2>7
    <3>2. Into(s)[kept + (Len(got) + j)] = s[Len(got) + j]
      BY <2>5, <3>1
    <3> QED
      BY <1>1, <3>1, <3>2
  <2> QED
    BY <1>6, <2>3, <2>4, <2>6, <2>8, <2>9 DEF t, w
<1>8. CASE Len(s) < Wanted /\ got' = s /\ lp' = lp /\ frame' = frame
  <2>1. Wanted' = Wanted
    BY <1>8 DEF Wanted
  <2>2. /\ lp' = "prime" => Seen' = got'
        /\ lp' = "read" =>
             /\ Len(Seen') = (FRAME_LEN - HOP_LEN) + Len(got')
             /\ \A j \in 1 .. FRAME_LEN - HOP_LEN : Seen'[j] = frame'[j]
             /\ \A j \in 1 .. Len(got') : Seen'[(FRAME_LEN - HOP_LEN) + j] = got'[j]
    <3>1. /\ (lp = "prime" => Seen = got)'
          /\ (lp = "read" =>
               /\ Len(Seen) = (FRAME_LEN - HOP_LEN) + Len(got)
               /\ \A j \in 1 .. FRAME_LEN - HOP_LEN : Seen[j] = frame[j]
               /\ \A j \in 1 .. Len(got) : Seen[(FRAME_LEN - HOP_LEN) + j] = got[j])'
      BY <1>2, SeenFacts, PTL
    <3> QED
      BY <3>1
  <2>3. /\ Len(Seen') = kept + Len(s)
        /\ \A j \in 1 .. kept : Seen'[j] = frame[j]
        /\ \A j \in 1 .. Len(s) : Seen'[kept + j] = s[j]
    <3>1. CASE lp = "prime"
      <4>1. kept = 0 /\ Seen' = s
        BY <1>3, <1>8, <2>2, <3>1 DEF Wanted
      <4>2. Len(s) \in Nat /\ \A j \in 1 .. Len(s) : 0 + j = j
        BY <1>1, <1>3, <1>4
      <4> QED
        BY <4>1, <4>2
    <3>2. CASE lp = "read"
      <4>1. kept = FRAME_LEN - HOP_LEN
        BY <3>2 DEF Wanted
      <4> QED
        BY <1>8, <2>2, <3>2, <4>1
    <3> QED
      BY <1>5, <3>1, <3>2
  <2>4. kept \in Nat
    BY <1>3
  <2> HIDE DEF kept
  <2>5. Len(Seen') = (kept + Len(got)) + Len(t)
    BY <1>1, <1>3, <1>4, <2>3, <2>4
  <2>6. \A j \in 1 .. kept + Len(got) : Seen'[j] = Seen[j]
    <3> TAKE j \in 1 .. kept + Len(got)
    <3>1. CASE j <= kept
      <4>1. j \in 1 .. kept
        BY <3>1
      <4> QED
        BY <1>6, <2>3, <4>1
    <3>2. CASE ~(j <= kept)
      <4>1. j - kept \in 1 .. Len(got) /\ kept + (j - kept) = j /\ j - kept \in 1 .. Len(s)
        BY <1>1, <1>3, <1>4, <2>4, <3>2
      <4>2. Seen[kept + (j - kept)] = got[j - kept] /\ s[j - kept] = got[j - kept]
        BY <1>1, <1>6, <4>1
      <4>3. Seen'[kept + (j - kept)] = s[j - kept]
        BY <2>3, <4>1
      <4> QED
        BY <4>1, <4>2, <4>3
    <3> QED
      BY <3>1, <3>2
  <2>7. \A j \in 1 .. Len(t) : Seen'[(kept + Len(got)) + j] = Heard(t[j])
    <3> TAKE j \in 1 .. Len(t)
    <3>1. Len(got) + j \in 1 .. Len(s) /\ kept + (Len(got) + j) = (kept + Len(got)) + j
      BY <1>1, <1>3, <1>4, <2>4
    <3>2. Seen'[kept + (Len(got) + j)] = s[Len(got) + j]
      BY <2>3, <3>1
    <3> QED
      BY <1>1, <3>1, <3>2
  <2> QED
    BY <1>6, <2>5, <2>6, <2>7 DEF t, w
<1> QED
  BY <1>1, <1>7, <1>8

\* What a round takes goes right behind what was seen.
LEMMA MicReadKeepsOrder ==
  LoopType /\ SentInv /\ RingInv /\ ChainInv /\ MicInv /\ ReadMic
    => RingInv' /\ ChainInv' /\ MicInv'
<1> SUFFICES ASSUME LoopType, SentInv, RingInv, ChainInv, MicInv, ReadMic
             PROVE  RingInv' /\ ChainInv' /\ MicInv'
  OBVIOUS
<1> DEFINE w == Wanted - Len(got)
           t == Take(w)
<1>1. /\ w \in Nat /\ w > 0 /\ MicRound(w) /\ IsSeq(t) /\ Len(t) \in 1 .. w
      /\ UNCHANGED <<source, file, pos, preemph_state, sent, stopped>>
      /\ source = "mic"
  BY MicReadFacts
<1>2. /\ Len(Seen') = Len(Seen) + Len(t)
      /\ \A j \in 1 .. Len(Seen) : Seen'[j] = Seen[j]
      /\ \A j \in 1 .. Len(t) : Seen'[Len(Seen) + j] = Heard(t[j])
  BY MicReadAssembles
<1> HIDE DEF w
<1>3. RingInv' /\ ChainInv'
  BY <1>1, RoundKeepsRing, RoundKeepsChain
<1>4. heard' = heard /\ lost' = lost
  BY <1>1, RoundFacts
<1>5. /\ \A j \in 1 .. Len(t) : t[j] \in 1 .. heard
      /\ \A j \in 1 .. Len(t) - 1 : Follows(t[j], t[j + 1])
      /\ \A a : NextIs(a) => Follows(a, t[1])
      /\ \A a : a = t[Len(t)] => NextIs(a)'
  BY <1>1, RoundTakesNext
<1>6. InOrder(Seen) /\ (Seen # <<>> => NextIs(Number(Seen[Len(Seen)])))
      /\ (\A k \in DOMAIN sent : InOrder(sent[k].data)) /\ pos = 0
  BY <1>1 DEF MicInv
<1>7. Len(t) \in Nat /\ Len(t) > 0
  BY <1>1
<1>8. IsSeq(Seen) /\ Len(Seen) \in Nat /\ DOMAIN Seen = 1 .. Len(Seen) /\ (Seen = <<>> <=> Len(Seen) = 0)
  BY SeenFacts, SeqFacts
<1>9. LoopType'
  BY MicReadKeepsTypes
<1>10. IsSeq(Seen)'
  BY <1>9, SeenFacts, PTL
<1>11. IsSeq(Seen')
  BY <1>10 DEF IsSeq
<1>12. DOMAIN Seen' = 1 .. Len(Seen) + Len(t)
  BY <1>2, <1>11, SeqFacts
<1> HIDE DEF t
<1> DEFINE n == Len(Seen)
           S == Seen'
<1>13. \A j \in 1 .. n + Len(t) : \E m \in 1 .. heard : S[j] = Heard(m)
  <2> TAKE j \in 1 .. n + Len(t)
  <2>1. CASE j <= n
    <3>1. j \in 1 .. n
      BY <2>1
    <3> QED
      BY <1>2, <1>6, <1>8, <3>1 DEF InOrder
  <2>2. CASE ~(j <= n)
    <3>1. j - n \in 1 .. Len(t) /\ n + (j - n) = j
      BY <1>7, <1>8, <2>2
    <3>2. S[n + (j - n)] = Heard(t[j - n])
      BY <1>2, <3>1
    <3> QED
      BY <1>5, <3>1, <3>2
  <2> QED
    BY <2>1, <2>2
<1>14. \A j \in 1 .. n + Len(t) : j > 1 => Follows(Number(S[j - 1]), Number(S[j]))
  <2> TAKE j \in 1 .. n + Len(t)
  <2> HAVE j > 1
  <2>1. CASE j <= n
    <3>1. j \in 1 .. n /\ j - 1 \in 1 .. n
      BY <1>8, <2>1
    <3>2. S[j] = Seen[j] /\ S[j - 1] = Seen[j - 1]
      BY <1>2, <3>1
    <3>3. Follows(Number(Seen[j - 1]), Number(Seen[j]))
      BY <1>6, <1>8, <3>1, InOrderFacts
    <3> QED
      BY <3>2, <3>3
  <2>2. CASE j = n + 1
    <3>1. n \in 1 .. n /\ j - 1 = n /\ 1 \in 1 .. Len(t)
      BY <1>7, <1>8, <2>2
    <3>2. S[j] = Heard(t[1]) /\ S[j - 1] = Seen[n]
      BY <1>2, <2>2, <3>1
    <3>3. NextIs(Number(Seen[n]))
      BY <1>6, <1>8, <3>1
    <3>4. Follows(Number(Seen[n]), t[1])
      BY <1>5, <3>3
    <3> QED
      BY <3>2, <3>4, HeardNumber, Zenon
  <2>3. CASE j > n + 1
    <3> DEFINE m == (j - n) - 1
    <3>1. m \in 1 .. Len(t) - 1 /\ m \in 1 .. Len(t) /\ m + 1 \in 1 .. Len(t)
          /\ n + m = j - 1 /\ n + (m + 1) = j
      BY <1>7, <1>8, <2>3
    <3> HIDE DEF m
    <3>2. S[n + m] = Heard(t[m]) /\ S[n + (m + 1)] = Heard(t[m + 1])
      BY <1>2, <3>1
    <3>3. Follows(t[m], t[m + 1])
      BY <1>5, <3>1
    <3>4. Number(S[n + m]) = t[m] /\ Number(S[n + (m + 1)]) = t[m + 1]
      BY <3>2, HeardNumber, Zenon
    <3> QED
      BY <3>1, <3>3, <3>4
  <2> QED
    BY <1>7, <1>8, <2>1, <2>2, <2>3
<1>15. InOrder(Seen)'
  <2>1. \A a, b : Follows(a, b)' <=> Follows(a, b)
    BY <1>4 DEF Follows
  <2>2. \A a : Number(a)' = Number(a)
    BY DEF Number
  <2> QED
    BY <1>4, <1>12, <1>13, <1>14, <2>1, <2>2 DEF InOrder, Follows
<1>16. NextIs(Number(Seen[Len(Seen)]))'
  <2>1. Len(t) \in 1 .. Len(t)
    BY <1>7
  <2>2. S[n + Len(t)] = Heard(t[Len(t)])
    BY <1>2, <2>1
  <2>3. Number(S[n + Len(t)]) = t[Len(t)]
    BY <2>2, HeardNumber, Zenon
  <2>4. Number(S[Len(S)]) = t[Len(t)]
    BY <1>2, <2>3
  <2> QED
    BY <1>5, <2>4 DEF NextIs, Follows, Latest
<1>17. \A k \in DOMAIN sent' : InOrder(sent[k].data)'
  <2>1. sent' = sent
    BY <1>1
  <2> QED
    BY <1>4, <1>6, <2>1 DEF InOrder, Follows
<1> QED
  BY <1>1, <1>3, <1>6, <1>15, <1>16, <1>17 DEF MicInv

\* After the shift the frame ends as before, in the sample read last.
LEMMA MicSendKeepsOrder == LoopType /\ RingInv /\ MicInv /\ SendFrame => MicInv'
<1> SUFFICES ASSUME LoopType, RingInv, MicInv, SendFrame, source = "mic"
             PROVE  MicInv'
  BY DEF SendFrame, MicInv
<1>1. /\ HOP_LEN \in Nat /\ HOP_LEN > 0 /\ FRAME_LEN \in Nat /\ FRAME_LEN > HOP_LEN
      /\ Len(frame) = FRAME_LEN /\ DOMAIN frame = 1 .. FRAME_LEN
      /\ Len(sent) \in Nat /\ DOMAIN sent = 1 .. Len(sent) /\ IsSeq(sent)
      /\ Len(got) \in Nat /\ IsSeq(got)
  BY LoopFacts DEF LoopType
<1> DEFINE k0 == FRAME_LEN - HOP_LEN
<1>2. /\ lp = "send" /\ lp' = "read" /\ frame' = Shifted /\ got' = got
      /\ sent' = Append(sent, MfccFrame(preemph_state, frame))
      /\ UNCHANGED <<source, pos, mic_buf, done, queue, cur_buf, cur_off, heard, lost>>
  BY DEF SendFrame, micVars
<1>3. Seen = frame /\ Len(got) = 0 /\ got = <<>>
  <2>1. ~Reading /\ Seen = frame
    BY <1>2 DEF Reading, Seen
  <2> QED
    BY <1>1, <2>1, LoopFacts DEF LoopType
<1>4. Seen' = SubSeq(Shifted, 1, k0) \o <<>>
  BY <1>2, <1>3 DEF Seen
<1>5. /\ IsSeq(SubSeq(Shifted, 1, k0)) /\ Len(SubSeq(Shifted, 1, k0)) = k0
      /\ \A j \in 1 .. k0 : SubSeq(Shifted, 1, k0)[j] = frame[HOP_LEN + j]
  <2>1. (k0 - 1) + 1 = k0 /\ 1 <= k0 /\ k0 \in Int
        /\ \A j \in 1 .. k0 : (1 + j) - 1 = j
    BY <1>1
  <2>2. /\ IsSeq(SubSeq(Shifted, 1, k0)) /\ Len(SubSeq(Shifted, 1, k0)) = k0
        /\ \A j \in 1 .. k0 : SubSeq(Shifted, 1, k0)[j] = Shifted[(1 + j) - 1]
    BY <2>1, PartSeq
  <2>3. \A j \in 1 .. k0 : Shifted[j] = frame[HOP_LEN + j]
    BY ShiftedFacts
  <2> QED
    BY <2>1, <2>2, <2>3
<1>6. Seen' = SubSeq(Shifted, 1, k0)
  <2> DEFINE u == SubSeq(Shifted, 1, k0)
  <2>1. u \in Seq({u[j] : j \in DOMAIN u})
    BY <1>5 DEF IsSeq
  <2> HIDE DEF u
  <2>2. u \o <<>> = u
    BY <2>1, ConcatEmptySeq
  <2> QED
    BY <1>4, <2>2 DEF u
<1>7. /\ Len(Seen') = k0 /\ DOMAIN Seen' = 1 .. k0 /\ k0 \in Nat /\ k0 > 0
      /\ \A j \in 1 .. k0 : Seen'[j] = frame[HOP_LEN + j]
  BY <1>1, <1>5, <1>6, SeqFacts
<1>8. InOrder(frame) /\ NextIs(Number(frame[FRAME_LEN]))
      /\ (\A k \in DOMAIN sent : InOrder(sent[k].data)) /\ pos = 0
  <2>1. frame # <<>>
    BY <1>1, EmptyIsSeq
  <2> QED
    BY <1>1, <1>3, <2>1 DEF MicInv
<1>9. heard' = heard /\ lost' = lost
  BY <1>2
<1> HIDE DEF k0
<1>10. \A j \in 1 .. k0 : HOP_LEN + j \in 1 .. FRAME_LEN
  BY <1>1 DEF k0
<1>11. \A j \in 1 .. k0 : \E m \in 1 .. heard : Seen'[j] = Heard(m)
  BY <1>1, <1>7, <1>8, <1>10 DEF InOrder
<1>12. \A j \in 1 .. k0 : j > 1 => Follows(Number(Seen'[j - 1]), Number(Seen'[j]))
  <2> TAKE j \in 1 .. k0
  <2> HAVE j > 1
  <2>1. j - 1 \in 1 .. k0 /\ HOP_LEN + (j - 1) = (HOP_LEN + j) - 1 /\ HOP_LEN + j > 1
    BY <1>1, <1>7
  <2>2. Follows(Number(frame[(HOP_LEN + j) - 1]), Number(frame[HOP_LEN + j]))
    BY <1>1, <1>8, <1>10, <2>1 DEF InOrder
  <2>3. Seen'[j] = frame[HOP_LEN + j] /\ Seen'[j - 1] = frame[(HOP_LEN + j) - 1]
    BY <1>7, <2>1
  <2> QED
    BY <2>2, <2>3
<1>13. InOrder(Seen)'
  BY <1>7, <1>9, <1>11, <1>12 DEF InOrder, Follows, Number
<1>14. NextIs(Number(Seen[Len(Seen)]))'
  <2>1. k0 \in 1 .. k0 /\ HOP_LEN + k0 = FRAME_LEN
    BY <1>1, <1>7 DEF k0
  <2>2. Seen'[Len(Seen')] = frame[FRAME_LEN]
    BY <1>7, <2>1
  <2> QED
    BY <1>2, <1>8, <2>2 DEF NextIs, Follows, Latest, Number
<1>15. \A k \in DOMAIN sent' : InOrder(sent[k].data)'
  <2>1. /\ IsSeq(sent') /\ Len(sent') = Len(sent) + 1
        /\ \A k \in 1 .. Len(sent) : sent'[k] = sent[k]
        /\ sent'[Len(sent) + 1] = MfccFrame(preemph_state, frame)
    BY <1>1, <1>2, AppendSeq
  <2>2. DOMAIN sent' = 1 .. Len(sent) + 1
    BY <2>1, SeqFacts
  <2>3. MfccFrame(preemph_state, frame).data = frame
    BY DEF MfccFrame
  <2>4. ASSUME NEW k \in 1 .. Len(sent) + 1
        PROVE  InOrder(sent'[k].data)
    <3>1. CASE k \in 1 .. Len(sent)
      <4>1. sent'[k] = sent[k]
        BY <2>1, <3>1
      <4> QED
        BY <1>1, <1>8, <3>1, <4>1
    <3>2. CASE k = Len(sent) + 1
      <4>1. sent'[k].data = frame
        BY <2>1, <2>3, <3>2
      <4> QED
        BY <1>8, <4>1
    <3> QED
      BY <1>1, <3>1, <3>2
  <2> QED
    BY <1>9, <2>2, <2>4 DEF InOrder, Follows, Number
<1> QED
  BY <1>2, <1>8, <1>13, <1>14, <1>15 DEF MicInv

\* What is heard meanwhile does not disturb the order.
LEMMA HearKeepsOrder ==
  LoopType /\ SentInv /\ RingInv /\ ChainInv /\ MicInv /\ MicHear /\ UNCHANGED loopVars
    => RingInv' /\ ChainInv' /\ MicInv'
<1> SUFFICES ASSUME LoopType, SentInv, RingInv, ChainInv, MicInv, MicHear, UNCHANGED loopVars
             PROVE  RingInv' /\ ChainInv' /\ MicInv'
  OBVIOUS
<1>1. RingInv' /\ ChainInv'
  BY HearKeepsRing, HearKeepsChain
<1>2. /\ heard' = heard + 1 /\ heard \in Nat
      /\ lost' = lost \/ lost' = lost \cup {heard + 1}
  BY HearFacts, RingFacts
<1>3. \A a, b \in Nat : Follows(a, b) => Follows(a, b)'
  BY <1>2, LossesGrow
<1>4. UNCHANGED <<source, frame, got, lp, sent, pos>>
  BY DEF loopVars
<1>5. Seen' = Seen
  BY <1>4 DEF Seen
<1>6. ASSUME NEW s, InOrder(s), DOMAIN s \subseteq Nat, \A j \in DOMAIN s : j > 1 => j - 1 \in DOMAIN s
      PROVE  InOrder(s)'
  <2>1. \A j \in DOMAIN s : \E n \in 1 .. heard' : s[j] = Heard(n)
    <3> TAKE j \in DOMAIN s
    <3>1. PICK n \in 1 .. heard : s[j] = Heard(n)
      BY <1>6 DEF InOrder
    <3>2. n \in 1 .. heard'
      BY <1>2
    <3> QED
      BY <3>1, <3>2
  <2>2. \A j \in DOMAIN s : j > 1 => Follows(Number(s[j - 1]), Number(s[j]))'
    <3> TAKE j \in DOMAIN s
    <3> HAVE j > 1
    <3>1. j - 1 \in DOMAIN s
      BY <1>6
    <3>2. Number(s[j - 1]) \in 1 .. heard /\ Number(s[j]) \in 1 .. heard
      BY <1>6, <3>1, InOrderFacts
    <3>3. Number(s[j - 1]) \in Nat /\ Number(s[j]) \in Nat
      BY <1>2, <3>2
    <3>4. Follows(Number(s[j - 1]), Number(s[j]))
      BY <1>6 DEF InOrder
    <3> QED
      BY <1>3, <3>3, <3>4 DEF Follows
  <2> QED
    BY <2>1, <2>2 DEF InOrder
<1>7. CASE source = "mic"
  <2>1. /\ InOrder(Seen) /\ (Seen # <<>> => NextIs(Number(Seen[Len(Seen)])))
        /\ (\A k \in DOMAIN sent : InOrder(sent[k].data)) /\ pos = 0
    BY <1>7 DEF MicInv
  <2>2. IsSeq(Seen) /\ Len(Seen) \in Nat /\ DOMAIN Seen = 1 .. Len(Seen) /\ (Seen = <<>> <=> Len(Seen) = 0)
    BY SeenFacts, SeqFacts
  <2>3. InOrder(Seen)'
    <3>1. DOMAIN Seen \subseteq Nat /\ \A j \in DOMAIN Seen : j > 1 => j - 1 \in DOMAIN Seen
      BY <2>2
    <3>2. ASSUME NEW s, s = Seen PROVE InOrder(s)'
      BY <1>6, <2>1, <3>1, <3>2
    <3> QED
      BY <1>5, <3>2 DEF InOrder, Follows
  <2>4. Seen' # <<>> => NextIs(Number(Seen[Len(Seen)]))'
    <3> HAVE Seen' # <<>>
    <3>1. Len(Seen) \in 1 .. Len(Seen) /\ Seen # <<>>
      BY <1>5, <2>2
    <3>2. Number(Seen[Len(Seen)]) \in 1 .. heard
      BY <2>1, <2>2, <3>1, InOrderFacts
    <3>3. Number(Seen[Len(Seen)]) \in Nat
      BY <1>2, <3>2
    <3>4. \A a \in Nat : NextIs(a) => NextIs(a)'
      BY HearKeepsNext
    <3>5. ASSUME NEW a, a = Number(Seen[Len(Seen)]) PROVE NextIs(a)'
      BY <2>1, <3>1, <3>3, <3>4, <3>5
    <3> QED
      BY <1>5, <3>5 DEF NextIs, Follows, Latest, Number
  <2>5. \A k \in DOMAIN sent' : InOrder(sent[k].data)'
    <3> SUFFICES ASSUME NEW k \in DOMAIN sent PROVE InOrder(sent[k].data)'
      BY <1>4
    <3>1. InOrder(sent[k].data)
      BY <2>1
    <3>2. DOMAIN sent[k].data = 1 .. FRAME_LEN /\ FRAME_LEN \in Nat
      BY FramesAssumption DEF SentInv
    <3>3. DOMAIN sent[k].data \subseteq Nat
          /\ \A j \in DOMAIN sent[k].data : j > 1 => j - 1 \in DOMAIN sent[k].data
      BY <3>2
    <3>4. ASSUME NEW s, s = sent[k].data PROVE InOrder(s)'
      BY <1>6, <3>1, <3>3, <3>4
    <3> QED
      BY <1>4, <3>4 DEF InOrder, Follows
  <2> QED
    BY <1>1, <1>4, <2>1, <2>3, <2>4, <2>5 DEF MicInv
<1>8. CASE source # "mic"
  BY <1>1, <1>4, <1>8 DEF MicInv
<1> QED
  BY <1>7, <1>8

-----------------------------------------------------------------------------
(* Files. *)

\* Frames start a hop apart.
LEMMA HopFacts ==
  /\ \A k \in Int : Hops(k) \in Int
  /\ Hops(0) = 0
  /\ \A k \in Int : Hops(k + 1) = Hops(k) + HOP_LEN
  /\ \A j, k \in Int : j <= k => Hops(j) <= Hops(k)
<1> SUFFICES ASSUME NEW h \in Nat, h = HOP_LEN
             PROVE  /\ \A k \in Int : k * h \in Int
                    /\ 0 * h = 0
                    /\ \A k \in Int : (k + 1) * h = k * h + h
                    /\ \A j, k \in Int : j <= k => j * h <= k * h
  BY FramesAssumption, Zenon DEF Hops
<1>1. \A k \in Int : k * h \in Int
  OBVIOUS
<1>2. 0 * h = 0
  OBVIOUS
<1>3. \A k \in Int : (k + 1) * h = k * h + h
  OBVIOUS
<1>4. ASSUME NEW j \in Int, NEW k \in Int, j <= k
      PROVE  j * h <= k * h
  <2>1. (k - j) * h >= 0
    BY <1>4
  <2>2. (k - j) * h = k * h - j * h
    OBVIOUS
  <2>3. k * h \in Int /\ j * h \in Int
    OBVIOUS
  <2> QED
    BY <2>1, <2>2, <2>3
<1> QED
  BY <1>1, <1>2, <1>3, <1>4

\* Quotient and remainder of a natural number.
LEMMA QuotientIs ==
  ASSUME NEW x \in Nat, NEW h \in Nat, h > 0, NEW q \in Nat, NEW r \in 0 .. h - 1, x = q * h + r
  PROVE  x \div h = q /\ x % h = r
<1>1. x \div h = q
  OBVIOUS
<1>2. x % h = r
  OBVIOUS
<1> QED
  BY <1>1, <1>2

\* The quotient is natural and rounds down.
LEMMA QuotientBelow ==
  ASSUME NEW x \in Nat, NEW h \in Nat, h > 0
  PROVE  x \div h \in Nat /\ (x \div h) * h <= x
<1>1. x \div h \in Int
  OBVIOUS
<1>2. PICK q \in Int : q = x \div h
  BY <1>1
<1>3. q * h <= x
  BY <1>2
<1>4. x \div h >= 0
  OBVIOUS
<1> QED
  BY <1>1, <1>2, <1>3, <1>4

\* A file that is accepted has a number of samples.
LEMMA SizeIsNatural == \A f \in FILES : WavAccepted(f) => SamplesIn(f) \in Nat
<1> SUFFICES ASSUME NEW f \in FILES, WavAccepted(f) PROVE SamplesIn(f) \in Nat
  OBVIOUS
<1>1. f.claimed \in Nat /\ f.there \in Nat
  BY FilesAssumption
<1>2. f.channels \in {1, 2}
  BY DEF WavAccepted
<1>3. Least(f.claimed, f.there) \in Nat
  BY <1>1 DEF Least
<1>4. \A x \in Nat : x \div (2 * 1) \in Nat /\ x \div (2 * 2) \in Nat
  OBVIOUS
<1> QED
  BY <1>2, <1>3, <1>4 DEF SamplesIn

\* No sample of a file, of the microphone or of the generator is junk.
LEMMA NotJunk ==
  /\ \A f : \A i : i # 0 => Sample(f, i) # Junk
  /\ \A i : i # 0 => Heard(i) # Junk /\ Made(i) # Junk
<1>1. \A a, b, i : i # 0 => {<<a, i>>} # {<<b, 0>>}
  <2> SUFFICES ASSUME NEW a, NEW b, NEW i, i # 0, {<<a, i>>} = {<<b, 0>>} PROVE FALSE
    OBVIOUS
  <2>1. <<a, i>> = <<b, 0>>
    OBVIOUS
  <2> QED
    BY <2>1
<1> QED
  BY <1>1 DEF Sample, Heard, Made, Junk

\* What a read of a file delivers.
LEMMA FileReadFacts ==
  ASSUME LoopType, WavInv, ReadFile, Size \in Nat, pos \in 0 .. Size
  PROVE  LET s == SubSeq(Content(file), pos + 1, Least(pos + Wanted, SamplesIn(file)))
         IN  /\ IsSeq(s) /\ Len(s) \in Nat /\ Len(s) <= Wanted
             /\ Len(s) = IF pos + Wanted <= Size THEN Wanted ELSE Size - pos
             /\ \A j \in 1 .. Len(s) : s[j] = Sample(file, pos + j)
             /\ ReadDone(s) /\ pos' = pos + Len(s)
             /\ (s = <<>> <=> Len(s) = 0)
<1> DEFINE e == Least(pos + Wanted, SamplesIn(file))
           s == SubSeq(Content(file), pos + 1, e)
<1>1. Wanted \in Nat /\ Wanted > 0
  <2>1. Wanted \in {FRAME_LEN, HOP_LEN} /\ FRAME_LEN \in Nat /\ HOP_LEN \in Nat /\ HOP_LEN > 0 /\ FRAME_LEN > HOP_LEN
    BY LoopFacts
  <2> QED
    BY <2>1
<1>2. e = IF pos + Wanted <= Size THEN pos + Wanted ELSE Size
  BY <1>1 DEF Least, Size
<1>3. ReadDone(s) /\ pos' = pos + Len(s)
  BY DEF ReadFile
<1> HIDE DEF e
<1>4. e \in Int /\ e >= pos /\ e <= Size /\ pos + 1 \in Int
  BY <1>1, <1>2
<1>5. /\ IsSeq(s) /\ Len(s) = (IF pos + 1 <= e THEN (e - (pos + 1)) + 1 ELSE 0)
      /\ \A j \in 1 .. (e - (pos + 1)) + 1 : s[j] = Content(file)[((pos + 1) + j) - 1]
  BY <1>4, PartSeq
<1> HIDE DEF s
<1>6. (e - (pos + 1)) + 1 = e - pos
  BY <1>4
<1>7. Len(s) = e - pos
  BY <1>4, <1>5, <1>6
<1>8. Len(s) \in Nat /\ Len(s) <= Wanted
  BY <1>1, <1>2, <1>4, <1>7
<1>9. \A i \in 1 .. Size : Content(file)[i] = Sample(file, i)
  BY DEF Content, Size
<1>10. \A j \in 1 .. Len(s) : s[j] = Sample(file, pos + j)
  <2> TAKE j \in 1 .. Len(s)
  <2>1. j \in 1 .. (e - (pos + 1)) + 1 /\ ((pos + 1) + j) - 1 = pos + j /\ pos + j \in 1 .. Size
    BY <1>4, <1>6, <1>7
  <2> QED
    BY <1>5, <1>9, <2>1
<1>11. Len(s) = IF pos + Wanted <= Size THEN Wanted ELSE Size - pos
  BY <1>1, <1>2, <1>7
<1>12. s = <<>> <=> Len(s) = 0
  BY <1>5, SeqFacts
<1> QED
  BY <1>3, <1>5, <1>8, <1>10, <1>11, <1>12 DEF s, e

\* Where frames end, and how far apart.
LEMMA FrameEndFacts ==
  \A k \in Int :
    /\ Hops(k) \in Int /\ FrameEnd(k) \in Int /\ FrameEnd(k) = Hops(k - 1) + FRAME_LEN
    /\ FrameEnd(k + 1) = FrameEnd(k) + HOP_LEN /\ FrameEnd(k + 1) = Hops(k) + FRAME_LEN
    /\ Hops(k + 1) = Hops(k) + HOP_LEN /\ Hops(k) = Hops(k - 1) + HOP_LEN
    /\ k >= 1 => FrameEnd(k) >= FRAME_LEN /\ Hops(k - 1) >= 0
    /\ FrameEnd(1) = FRAME_LEN
<1> TAKE k \in Int
<1>1. HOP_LEN \in Nat /\ FRAME_LEN \in Nat
  BY FramesAssumption
<1>2. k - 1 \in Int /\ (k - 1) + 1 = k /\ (k + 1) - 1 = k /\ 1 - 1 = 0
  OBVIOUS
<1>3. Hops(k) \in Int /\ Hops(k - 1) \in Int /\ Hops(k) = Hops(k - 1) + HOP_LEN /\ Hops(k + 1) = Hops(k) + HOP_LEN
  <2>1. Hops((k - 1) + 1) = Hops(k - 1) + HOP_LEN
    BY <1>2, HopFacts
  <2> QED
    BY <1>2, <2>1, HopFacts
<1>4. FrameEnd(k) = Hops(k - 1) + FRAME_LEN
  BY DEF FrameEnd
<1>5. FrameEnd(k + 1) = Hops(k) + FRAME_LEN
  BY <1>2 DEF FrameEnd
<1>6. FrameEnd(1) = FRAME_LEN
  BY <1>1, <1>2, HopFacts DEF FrameEnd
<1>7. k >= 1 => Hops(k - 1) >= 0
  <2> HAVE k >= 1
  <2>1. 0 <= k - 1
    OBVIOUS
  <2>2. Hops(0) <= Hops(k - 1)
    BY <1>2, <2>1, HopFacts
  <2> QED
    BY <1>3, <2>2, HopFacts
<1> QED
  BY <1>1, <1>3, <1>4, <1>5, <1>6, <1>7

\* A read of the file takes what follows the last, up to its end.
LEMMA ReadFileKeeps ==
  ASSUME LoopType, SentInv, WavInv, file \in FILES, ReadFile
  PROVE  LoopType' /\ SentInv' /\ WavInv'
<1> DEFINE s == SubSeq(Content(file), pos + 1, Least(pos + Wanted, SamplesIn(file)))
           m == Len(sent)
<1>1. /\ source = "wav" /\ Reading
      /\ UNCHANGED <<source, file, got, preemph_state, sent, stopped, mic_buf, done, queue, cur_buf, cur_off, heard, lost>>
  BY DEF ReadFile, micVars
<1>2. Size \in Nat /\ pos \in 0 .. Size /\ got = <<>>
  BY <1>1 DEF WavInv, Reading
<1>3. /\ IsSeq(s) /\ Len(s) \in Nat /\ Len(s) <= Wanted
      /\ Len(s) = IF pos + Wanted <= Size THEN Wanted ELSE Size - pos
      /\ \A j \in 1 .. Len(s) : s[j] = Sample(file, pos + j)
      /\ ReadDone(s) /\ pos' = pos + Len(s)
      /\ (s = <<>> <=> Len(s) = 0)
  BY <1>2, FileReadFacts
<1> HIDE DEF s
<1>4. got' = <<>>
  BY <1>1, <1>2
<1>5. LoopType' /\ SentInv'
  BY <1>1, <1>3, <1>4, ReadKeepsFrames
<1>6. /\ HOP_LEN \in Nat /\ HOP_LEN > 0 /\ FRAME_LEN \in Nat /\ FRAME_LEN > HOP_LEN
      /\ m \in Nat /\ DOMAIN sent = 1 .. m /\ (sent = <<>> <=> m = 0)
  BY LoopFacts
<1> HIDE DEF m
<1>7. Size' = Size /\ \A i : Sample(file, i)' = Sample(file, i)
  BY <1>1 DEF Size, SamplesIn, Sample, Least
<1>8. /\ \A k \in DOMAIN sent : FrameEnd(k) <= Size => FromFile(sent[k].data, k - 1, FRAME_LEN)
      /\ \A k \in DOMAIN sent : NoJunk(sent[k].data) \/ (Size < FRAME_LEN /\ m = 1)
      /\ lp = "prime" => pos = 0
      /\ lp = "read" =>
           \/ pos = FrameEnd(m) /\ FromFile(frame, m, FRAME_LEN - HOP_LEN)
           \/ pos = Size /\ Short(m - 1)
      /\ lp = "read" => NoJunk(frame) \/ (Size < FRAME_LEN /\ pos = Size)
      /\ WavAccepted(file)
  BY <1>1 DEF WavInv, m, Reading
<1>9. pos' \in 0 .. Size
  BY <1>2, <1>3, <1>6 DEF Wanted
<1>10. /\ \A k \in DOMAIN sent : FrameEnd(k) <= Size => FromFile(sent[k].data, k - 1, FRAME_LEN)'
       /\ \A k \in DOMAIN sent : NoJunk(sent[k].data)' \/ (Size < FRAME_LEN /\ m = 1)
  BY <1>1, <1>7, <1>8 DEF FromFile, NoJunk, Hops
<1>11. lp = "prime" => m = 0 /\ pos = 0 /\ Wanted = FRAME_LEN
  BY <1>6, <1>8 DEF LoopType, Wanted
<1>12. lp = "read" => m \in Nat /\ m >= 1 /\ Wanted = HOP_LEN
  BY <1>6 DEF LoopType, Wanted
<1>13. lp \in {"prime", "read"}
  BY <1>1 DEF Reading
<1>14. \A j \in 1 .. Len(s) : s[j] # Junk
  <2> TAKE j \in 1 .. Len(s)
  <2>1. pos + j # 0
    BY <1>2
  <2> QED
    BY <1>3, <2>1, NotJunk
<1>15. CASE s = <<>>
  <2>1. lp' = "end" /\ frame' = frame /\ pos' = pos
    BY <1>2, <1>3, <1>15 DEF ReadDone
  <2>2. pos = Size
    BY <1>2, <1>3, <1>6, <1>11, <1>12, <1>13, <1>15
  <2>3. \/ m = 0 /\ Size = 0
        \/ m # 0 /\ Size = FrameEnd(m)
        \/ m # 0 /\ Short(m - 1)
    BY <1>8, <1>11, <1>12, <1>13, <2>2
  <2>4. \/ sent' = <<>> /\ Size' = 0
        \/ sent' # <<>> /\ Size' = FrameEnd(Len(sent'))
        \/ sent' # <<>> /\ Short(Len(sent) - 1)'
    <3>1. Len(sent') = m /\ (sent' = <<>> <=> m = 0)
      BY <1>1, <1>6 DEF m
    <3>2. Short(m - 1) => Short(Len(sent) - 1)'
      BY <1>1, <1>7 DEF Short, FrameEnd, Hops, m
    <3> QED
      BY <1>7, <2>3, <3>1, <3>2
  <2> QED
    BY <1>1, <1>2, <1>4, <1>5, <1>7, <1>8, <1>9, <1>10, <2>1, <2>4 DEF WavInv, m
<1>16. CASE s # <<>>
  <2>1. lp' = "send" /\ frame' = Into(s)
    BY <1>3, <1>16 DEF ReadDone
  <2>2. /\ \A j \in 1 .. FRAME_LEN - Wanted : frame'[j] = frame[j]
        /\ \A j \in 1 .. Len(s) : frame'[(FRAME_LEN - Wanted) + j] = s[j]
        /\ \A j \in 1 .. FRAME_LEN : \/ frame'[j] = frame[j]
                                     \/ \E k \in 1 .. Len(s) : frame'[j] = s[k]
        /\ Len(s) = Wanted => \A j \in (FRAME_LEN - Wanted) + 1 .. FRAME_LEN :
                                \E k \in 1 .. Len(s) : frame'[j] = s[k]
    BY <1>3, <2>1, IntoFacts
  <2>3. Len(s) > 0
    BY <1>3, <1>16
  <2>4. /\ \/ pos' = FrameEnd(m + 1) /\ FromFile(frame', m, FRAME_LEN)
           \/ pos' = Size /\ Short(m)
        /\ NoJunk(frame') \/ (Size < FRAME_LEN /\ pos' = Size)
    <3>1. CASE lp = "prime"
      <4>1. m = 0 /\ pos = 0 /\ Wanted = FRAME_LEN /\ Hops(0) = 0 /\ FrameEnd(0 + 1) = FRAME_LEN
        BY <1>11, <3>1, FrameEndFacts, HopFacts
      <4>2. CASE FRAME_LEN <= Size
        <5>1. Len(s) = FRAME_LEN /\ pos' = FRAME_LEN
          BY <1>2, <1>3, <1>6, <4>1, <4>2
        <5>2. \A j \in 1 .. FRAME_LEN : frame'[j] = s[j] /\ s[j] = Sample(file, 0 + j)
          <6> TAKE j \in 1 .. FRAME_LEN
          <6>1. (FRAME_LEN - FRAME_LEN) + j = j
            BY <1>6
          <6> QED
            BY <1>3, <2>2, <4>1, <5>1, <6>1
        <5>3. FromFile(frame', m, FRAME_LEN)
          BY <4>1, <5>2 DEF FromFile
        <5>4. NoJunk(frame')
          BY <1>14, <5>1, <5>2 DEF NoJunk
        <5> QED
          BY <4>1, <5>1, <5>3, <5>4
      <4>3. CASE ~(FRAME_LEN <= Size)
        <5>1. Len(s) = Size /\ pos' = Size
          BY <1>2, <1>3, <1>6, <4>1, <4>3
        <5>2. Short(0)
          BY <1>2, <1>6, <2>3, <4>1, <4>3, <5>1 DEF Short
        <5> QED
          BY <1>2, <1>6, <4>1, <4>3, <5>1, <5>2
      <4> QED
        BY <4>2, <4>3
    <3>2. CASE lp = "read"
      <4>1. m >= 1 /\ Wanted = HOP_LEN /\ FRAME_LEN - HOP_LEN \in 1 .. FRAME_LEN
        BY <1>6, <1>12, <3>2
      <4>2. /\ Hops(m - 1) \in Int /\ Hops(m) \in Int /\ FrameEnd(m) \in Int
            /\ FrameEnd(m) = Hops(m - 1) + FRAME_LEN /\ FrameEnd(m + 1) = FrameEnd(m) + HOP_LEN
            /\ Hops(m) = Hops(m - 1) + HOP_LEN /\ FrameEnd(m) >= FRAME_LEN
        BY <1>6, <4>1, FrameEndFacts
      <4>3. pos # Size
        BY <1>2, <1>3, <1>6, <2>3, <4>1
      <4>4. pos = FrameEnd(m) /\ FromFile(frame, m, FRAME_LEN - HOP_LEN) /\ NoJunk(frame)
        BY <1>8, <3>2, <4>3
      <4>5. NoJunk(frame')
        BY <1>14, <2>2, <4>4 DEF NoJunk
      <4>6. CASE pos + HOP_LEN <= Size
        <5>1. Len(s) = HOP_LEN /\ pos' = FrameEnd(m + 1)
          BY <1>2, <1>3, <1>6, <4>1, <4>2, <4>4, <4>6
        <5>2. \A j \in 1 .. FRAME_LEN : frame'[j] = Sample(file, Hops(m) + j)
          <6> TAKE j \in 1 .. FRAME_LEN
          <6>1. CASE j <= FRAME_LEN - HOP_LEN
            <7>1. j \in 1 .. FRAME_LEN - HOP_LEN
              BY <1>6, <6>1
            <7> QED
              BY <2>2, <4>1, <4>4, <7>1 DEF FromFile
          <6>2. CASE ~(j <= FRAME_LEN - HOP_LEN)
            <7> DEFINE i == j - (FRAME_LEN - HOP_LEN)
            <7>1. i \in 1 .. HOP_LEN /\ (FRAME_LEN - HOP_LEN) + i = j
              BY <1>6, <6>2
            <7>2. pos + i = Hops(m) + j
              BY <1>6, <4>2, <4>4
            <7> HIDE DEF i
            <7> QED
              BY <1>3, <2>2, <4>1, <5>1, <7>1, <7>2
          <6> QED
            BY <6>1, <6>2
        <5>3. FromFile(frame', m, FRAME_LEN)
          BY <5>2 DEF FromFile
        <5> QED
          BY <4>5, <5>1, <5>3
      <4>7. CASE ~(pos + HOP_LEN <= Size)
        <5>1. pos' = Size
          BY <1>2, <1>3, <1>6, <4>1, <4>7
        <5>2. Short(m)
          BY <1>2, <1>6, <4>1, <4>2, <4>3, <4>4, <4>7 DEF Short
        <5> QED
          BY <4>5, <5>1, <5>2
      <4> QED
        BY <4>6, <4>7
    <3> QED
      BY <1>13, <3>1, <3>2
  <2>5. /\ \/ pos' = FrameEnd(Len(sent) + 1)' /\ FromFile(frame, Len(sent), FRAME_LEN)'
           \/ pos' = Size' /\ Short(Len(sent))'
        /\ NoJunk(frame)' \/ (Size' < FRAME_LEN /\ pos' = Size')
    BY <1>1, <1>7, <2>4 DEF FrameEnd, Hops, FromFile, Short, NoJunk, m
  <2> QED
    BY <1>1, <1>2, <1>4, <1>5, <1>7, <1>8, <1>9, <1>10, <2>1, <2>5 DEF WavInv, m
<1> QED
  BY <1>15, <1>16

\* The frame sent is the next of the file, as long as the file has one.
LEMMA SendKeepsFile ==
  LoopType /\ SentInv /\ WavInv /\ SendFrame => WavInv'
<1> SUFFICES ASSUME LoopType, SentInv, WavInv, SendFrame, source = "wav"
             PROVE  WavInv'
  BY DEF SendFrame, WavInv
<1> DEFINE m == Len(sent)
           f == MfccFrame(preemph_state, frame)
<1>1. /\ HOP_LEN \in Nat /\ HOP_LEN > 0 /\ FRAME_LEN \in Nat /\ FRAME_LEN > HOP_LEN
      /\ m \in Nat /\ DOMAIN sent = 1 .. m /\ IsSeq(sent)
  BY LoopFacts DEF LoopType
<1>2. /\ lp = "send" /\ lp' = "read" /\ frame' = Shifted /\ sent' = Append(sent, f)
      /\ UNCHANGED <<source, file, pos, got, stopped>>
  BY DEF SendFrame
<1>3. /\ IsSeq(sent') /\ Len(sent') = m + 1 /\ \A k \in 1 .. m : sent'[k] = sent[k]
      /\ sent'[m + 1].data = frame
  <2>1. f.data = frame
    BY DEF MfccFrame
  <2> HIDE DEF f
  <2> QED
    BY <1>1, <1>2, <2>1, AppendSeq
<1>4. DOMAIN sent' = 1 .. m + 1
  BY <1>3, SeqFacts
<1> HIDE DEF m, f
<1>5. /\ got = <<>> /\ Size \in Nat /\ pos \in 0 .. Size
      /\ \A k \in DOMAIN sent : FrameEnd(k) <= Size => FromFile(sent[k].data, k - 1, FRAME_LEN)
      /\ \A k \in DOMAIN sent : NoJunk(sent[k].data) \/ (Size < FRAME_LEN /\ m = 1)
      /\ \/ pos = FrameEnd(m + 1) /\ FromFile(frame, m, FRAME_LEN)
         \/ pos = Size /\ Short(m)
      /\ NoJunk(frame) \/ (Size < FRAME_LEN /\ pos = Size)
      /\ WavAccepted(file)
  BY <1>2 DEF WavInv, m
<1>6. /\ Hops(m) \in Int /\ FrameEnd(m) \in Int /\ FrameEnd(m + 1) = FrameEnd(m) + HOP_LEN
      /\ Hops(m + 1) = Hops(m) + HOP_LEN /\ FrameEnd(m + 1) >= FRAME_LEN
      /\ m >= 1 => FrameEnd(m) >= FRAME_LEN
  <2>1. m + 1 >= 1 /\ m + 1 \in Int /\ m \in Int
    BY <1>1
  <2> QED
    BY <2>1, FrameEndFacts
<1>7. Size' = Size
  BY <1>2 DEF Size
<1>8. Size < FRAME_LEN => m = 0
  <2>1. Size < FRAME_LEN => Short(m)
    BY <1>1, <1>5, <1>6
  <2>2. Short(m) /\ m # 0 => FrameEnd(m) < Size
    BY DEF Short
  <2> QED
    BY <1>1, <1>5, <1>6, <2>1, <2>2
<1>9. FrameEnd(m + 1) <= Size => FromFile(frame, m, FRAME_LEN)
  <2>1. Short(m) => Size < FrameEnd(m + 1)
    BY DEF Short
  <2> QED
    BY <1>1, <1>5, <1>6, <2>1
<1>10. \A k \in 1 .. m + 1 : FrameEnd(k) <= Size => FromFile(sent'[k].data, k - 1, FRAME_LEN)
  <2> TAKE k \in 1 .. m + 1
  <2>1. CASE k \in 1 .. m
    BY <1>1, <1>3, <1>5, <2>1
  <2>2. CASE k = m + 1
    <3>1. k - 1 = m
      BY <1>1, <2>2
    <3> QED
      BY <1>3, <1>9, <2>2, <3>1
  <2> QED
    BY <1>1, <2>1, <2>2
<1>11. \A k \in 1 .. m + 1 : NoJunk(sent'[k].data) \/ (Size < FRAME_LEN /\ m + 1 = 1)
  <2> TAKE k \in 1 .. m + 1
  <2>1. CASE k \in 1 .. m
    <3>1. m # 0
      BY <1>1, <2>1
    <3> QED
      BY <1>1, <1>3, <1>5, <1>8, <2>1, <3>1
  <2>2. CASE k = m + 1
    BY <1>1, <1>3, <1>5, <1>8, <2>2
  <2> QED
    BY <1>1, <2>1, <2>2
<1>12. \/ pos = FrameEnd(m + 1) /\ FromFile(frame', m + 1, FRAME_LEN - HOP_LEN)
       \/ pos = Size /\ Short(m)
  <2>1. ASSUME FromFile(frame, m, FRAME_LEN)
        PROVE  FromFile(frame', m + 1, FRAME_LEN - HOP_LEN)
    <3> SUFFICES ASSUME NEW j \in 1 .. FRAME_LEN - HOP_LEN
                 PROVE  frame'[j] = Sample(file, Hops(m + 1) + j)
      BY DEF FromFile
    <3>1. frame'[j] = frame[HOP_LEN + j]
      BY <1>2, ShiftedFacts
    <3>2. HOP_LEN + j \in 1 .. FRAME_LEN /\ Hops(m) + (HOP_LEN + j) = Hops(m + 1) + j
      BY <1>1, <1>6
    <3>3. frame[HOP_LEN + j] = Sample(file, Hops(m) + (HOP_LEN + j))
      BY <2>1, <3>2 DEF FromFile
    <3> QED
      BY <3>1, <3>2, <3>3
  <2> QED
    BY <1>5, <2>1
<1>13. NoJunk(frame') \/ (Size < FRAME_LEN /\ pos = Size)
  BY <1>2, <1>5, ShiftedFacts DEF NoJunk
<1>14. (m + 1) - 1 = m
  BY <1>1
<1>15. \A k \in DOMAIN sent' : FrameEnd(k) <= Size' => FromFile(sent[k].data, k - 1, FRAME_LEN)'
  BY <1>2, <1>4, <1>7, <1>10 DEF FromFile
<1>16. \A k \in DOMAIN sent' : NoJunk(sent[k].data)' \/ (Size' < FRAME_LEN /\ Len(sent') = 1)
  BY <1>3, <1>4, <1>7, <1>11 DEF NoJunk
<1>17. \/ pos' = FrameEnd(Len(sent))' /\ FromFile(frame, Len(sent), FRAME_LEN - HOP_LEN)'
       \/ pos' = Size' /\ Short(Len(sent) - 1)'
  <2>1. Len(sent') = m + 1 /\ Len(sent') - 1 = m
    BY <1>3, <1>14
  <2> QED
    BY <1>2, <1>7, <1>12, <2>1 DEF FromFile, Short, FrameEnd
<1>18. NoJunk(frame)' \/ (Size' < FRAME_LEN /\ pos' = Size')
  BY <1>2, <1>7, <1>13 DEF NoJunk
<1> QED
  BY <1>2, <1>5, <1>7, <1>15, <1>16, <1>17, <1>18 DEF WavInv

\* A stopped stream has sent frames of its file.
LEMMA StopKeepsFile == LoopType /\ WavInv /\ Stop => WavInv'
<1> SUFFICES ASSUME LoopType, WavInv, Stop, source = "wav" PROVE WavInv'
  BY DEF Stop, WavInv
<1>1. /\ UNCHANGED <<source, file, pos, frame, got, preemph_state, sent>>
      /\ lp = "send" /\ lp' = "end" /\ stopped'
  BY DEF Stop
<1>2. Size' = Size
  BY <1>1 DEF Size
<1>3. /\ \A k \in DOMAIN sent : FrameEnd(k) <= Size => FromFile(sent[k].data, k - 1, FRAME_LEN)
      /\ \A k \in DOMAIN sent : NoJunk(sent[k].data) \/ (Size < FRAME_LEN /\ Len(sent) = 1)
      /\ got = <<>> /\ Size \in Nat /\ pos \in 0 .. Size /\ WavAccepted(file)
  BY <1>1 DEF WavInv
<1>4. \A k \in DOMAIN sent' : FrameEnd(k) <= Size' => FromFile(sent[k].data, k - 1, FRAME_LEN)'
  BY <1>1, <1>2, <1>3 DEF FromFile
<1>5. \A k \in DOMAIN sent' : NoJunk(sent[k].data)' \/ (Size' < FRAME_LEN /\ Len(sent') = 1)
  BY <1>1, <1>2, <1>3 DEF NoJunk
<1> QED
  BY <1>1, <1>2, <1>3, <1>4, <1>5 DEF WavInv

-----------------------------------------------------------------------------
(* The loop keeps its invariant. *)

\* Nothing made or heard is memory that was never written.
LEMMA OtherSteps ==
  ASSUME LoopType, RingInv, ChainInv, MicInv, OtherInv, source # "wav",
         ReadSynth \/ ReadMic \/ SendFrame \/ Stop
  PROVE  OtherInv'
<1>1. /\ HOP_LEN \in Nat /\ HOP_LEN > 0 /\ FRAME_LEN \in Nat /\ FRAME_LEN > HOP_LEN
      /\ Len(sent) \in Nat /\ DOMAIN sent = 1 .. Len(sent) /\ IsSeq(sent)
      /\ Wanted \in {FRAME_LEN, HOP_LEN}
  BY LoopFacts DEF LoopType
<1>2. /\ lp # "prime" => NoJunk(frame)
      /\ \A k \in DOMAIN sent : NoJunk(sent[k].data)
      /\ pos \in Nat
  BY DEF OtherInv
<1>3. source' = source
  BY DEF ReadSynth, ReadMic, SendFrame, Stop
<1>4. ASSUME NEW s, IsSeq(s), Len(s) = Wanted, ReadDone(s), Reading,
             \A k \in 1 .. Len(s) : s[k] # Junk,
             sent' = sent, pos' \in Nat
      PROVE  OtherInv'
  <2>1. s # <<>>
    BY <1>1, <1>4, EmptyIsSeq
  <2>2. lp' = "send" /\ frame' = Into(s)
    BY <1>4, <2>1 DEF ReadDone
  <2>3. Len(s) <= Wanted
    BY <1>1, <1>4
  <2>4. /\ \A j \in 1 .. FRAME_LEN : \/ frame'[j] = frame[j]
                                     \/ \E k \in 1 .. Len(s) : frame'[j] = s[k]
        /\ \A j \in (FRAME_LEN - Wanted) + 1 .. FRAME_LEN : \E k \in 1 .. Len(s) : frame'[j] = s[k]
    BY <1>4, <2>2, <2>3, IntoFacts
  <2>5. NoJunk(frame')
    <3>1. CASE lp = "prime"
      <4>1. Wanted = FRAME_LEN /\ (FRAME_LEN - FRAME_LEN) + 1 = 1
        BY <1>1, <3>1 DEF Wanted
      <4> QED
        BY <1>4, <2>4, <4>1 DEF NoJunk
    <3>2. CASE lp # "prime"
      BY <1>2, <1>4, <2>4, <3>2 DEF NoJunk
    <3> QED
      BY <3>1, <3>2
  <2> QED
    BY <1>2, <1>4, <2>5 DEF OtherInv, NoJunk
<1>5. CASE ReadSynth
  <2> DEFINE s == [k \in 1 .. Wanted |-> Made(pos + k)]
  <2>1. Wanted \in Nat /\ s = [k \in 1 .. Wanted |-> s[k]]
    BY <1>1
  <2>2. \A k \in 1 .. Wanted : s[k] # Junk
    <3> TAKE k \in 1 .. Wanted
    <3>1. pos + k # 0
      BY <1>2, <2>1
    <3> QED
      BY <3>1, NotJunk
  <2>3. ReadDone(s) /\ Reading /\ sent' = sent /\ pos' = pos + Wanted
    BY <1>5 DEF ReadSynth
  <2> HIDE DEF s
  <2>4. IsSeq(s) /\ Len(s) = Wanted
    BY <2>1, FunIsSeq
  <2>5. pos' \in Nat
    BY <1>2, <2>1, <2>3
  <2> QED
    BY <1>4, <2>2, <2>3, <2>4, <2>5
<1>6. CASE ReadMic
  <2> DEFINE w == Wanted - Len(got)
             t == Take(w)
             h == [k \in DOMAIN t |-> Heard(t[k])]
             s == got \o h
  <2>1. /\ w \in Nat /\ w > 0 /\ MicRound(w) /\ IsSeq(s)
        /\ \A k \in 1 .. Len(got) : s[k] = got[k]
        /\ \A k \in 1 .. Len(t) : s[Len(got) + k] = Heard(t[k])
        /\ Len(s) = Len(got) + Len(t)
        /\ \/ Len(s) = Wanted /\ ReadDone(s) /\ got' = <<>>
           \/ Len(s) < Wanted /\ got' = s /\ lp' = lp /\ frame' = frame
        /\ UNCHANGED <<source, file, pos, preemph_state, sent, stopped>>
        /\ Reading /\ source = "mic"
    BY <1>6, MicReadFacts
  <2> HIDE DEF s, h
  <2>2. CASE Len(s) < Wanted /\ got' = s /\ lp' = lp /\ frame' = frame
    BY <1>2, <1>3, <2>1, <2>2 DEF OtherInv, NoJunk
  <2>3. CASE Len(s) = Wanted /\ ReadDone(s)
    <3>1. \A k \in 1 .. Len(s) : s[k] # Junk
      <4>1. IsSeq(got) /\ Len(got) \in Nat /\ IsSeq(t) /\ Len(t) \in Nat
        BY LoopFacts, RoundFacts, <2>1, SeqFacts DEF LoopType
      <4>2. \A k \in 1 .. Len(got) : got[k] # Junk
        <5>1. InOrder(Seen)
          BY <2>1 DEF MicInv
        <5>2. \A j \in DOMAIN Seen : Seen[j] # Junk
          <6> TAKE j \in DOMAIN Seen
          <6>1. PICK n \in 1 .. heard : Seen[j] = Heard(n)
            BY <5>1 DEF InOrder
          <6>2. n # 0
            OBVIOUS
          <6> QED
            BY <6>1, <6>2, NotJunk
        <5>3. DOMAIN Seen = 1 .. Len(Seen) /\ Len(Seen) \in Nat
          BY SeenFacts, SeqFacts
        <5>4. CASE lp = "prime"
          BY <5>2, <5>3, <5>4, SeenFacts
        <5>5. CASE lp = "read"
          <6> TAKE k \in 1 .. Len(got)
          <6>1. /\ Len(Seen) = (FRAME_LEN - HOP_LEN) + Len(got)
                /\ Seen[(FRAME_LEN - HOP_LEN) + k] = got[k]
            BY <5>5, SeenFacts
          <6>2. (FRAME_LEN - HOP_LEN) + k \in 1 .. Len(Seen)
            BY <1>1, <4>1, <6>1
          <6> QED
            BY <5>2, <5>3, <6>1, <6>2
        <5> QED
          BY <2>1, <5>4, <5>5 DEF Reading
      <4>3. \A k \in 1 .. Len(t) : Heard(t[k]) # Junk
        <5> TAKE k \in 1 .. Len(t)
        <5>1. t[k] \in 1 .. heard
          BY <2>1, RoundTakesNext
        <5>2. t[k] # 0
          BY <5>1
        <5> QED
          BY <5>2, NotJunk
      <4> HIDE DEF t
      <4> TAKE k \in 1 .. Len(s)
      <4>4. CASE k \in 1 .. Len(got)
        BY <2>1, <4>2, <4>4
      <4>5. CASE k \notin 1 .. Len(got)
        <5> DEFINE a == Len(got)
                   b == Len(t)
        <5>3. a \in Nat /\ b \in Nat /\ k \in 1 .. a + b
          BY <4>1, <2>1
        <5> HIDE DEF a, b
        <5>4. k - a \in Int
          BY <5>3
        <5>1. PICK j \in Int : j = k - Len(got)
          BY <5>4 DEF a
        <5>2. j \in 1 .. Len(t) /\ Len(got) + j = k
          BY <2>1, <4>1, <4>5, <5>1
        <5> QED
          BY <2>1, <4>3, <5>2
      <4> QED
        BY <4>4, <4>5
    <3>2. pos' \in Nat
      BY <1>2, <2>1
    <3> QED
      BY <1>4, <2>1, <2>3, <3>1, <3>2
  <2> QED
    BY <2>1, <2>2, <2>3
<1>7. CASE SendFrame
  <2>1. /\ lp = "send" /\ frame' = Shifted /\ pos' = pos
        /\ sent' = Append(sent, MfccFrame(preemph_state, frame))
    BY <1>7 DEF SendFrame
  <2>2. /\ IsSeq(sent') /\ Len(sent') = Len(sent) + 1
        /\ \A k \in 1 .. Len(sent) : sent'[k] = sent[k]
        /\ sent'[Len(sent) + 1] = MfccFrame(preemph_state, frame)
    BY <1>1, <2>1, AppendSeq
  <2>3. DOMAIN sent' = 1 .. Len(sent) + 1 /\ MfccFrame(preemph_state, frame).data = frame
    BY <2>2, SeqFacts DEF MfccFrame
  <2>4. NoJunk(frame) /\ NoJunk(frame')
    BY <1>2, <2>1, ShiftedFacts DEF NoJunk
  <2>5. \A k \in 1 .. Len(sent) + 1 : NoJunk(sent'[k].data)
    <3> TAKE k \in 1 .. Len(sent) + 1
    <3>1. k \in 1 .. Len(sent) \/ k = Len(sent) + 1
      BY <1>1
    <3> QED
      BY <1>1, <1>2, <2>2, <2>3, <2>4, <3>1
  <2> QED
    BY <1>2, <2>1, <2>3, <2>4, <2>5 DEF OtherInv, NoJunk
<1>8. CASE Stop
  <2>1. UNCHANGED <<pos, frame, sent>> /\ lp = "send"
    BY <1>8 DEF Stop
  <2> QED
    BY <1>2, <2>1 DEF OtherInv, NoJunk
<1> QED
  BY <1>5, <1>6, <1>7, <1>8

\* What the driver records meanwhile is nothing to the frames.
LEMMA HearKeepsFrames ==
  LoopType /\ SentInv /\ WavInv /\ OtherInv /\ source = "mic" /\ UNCHANGED loopVars
    => LoopType' /\ SentInv' /\ WavInv' /\ OtherInv'
<1> SUFFICES ASSUME LoopType, SentInv, WavInv, OtherInv, source = "mic", UNCHANGED loopVars
             PROVE  LoopType' /\ SentInv' /\ WavInv' /\ OtherInv'
  OBVIOUS
<1>1. UNCHANGED <<source, file, pos, frame, got, lp, preemph_state, sent, stopped>>
  BY DEF loopVars
<1>2. LoopType'
  BY <1>1 DEF LoopType, Wanted, Reading
<1>3. SentInv'
  BY <1>1 DEF SentInv, Overlap
<1>4. WavInv'
  BY <1>1 DEF WavInv
<1>5. OtherInv'
  BY <1>1 DEF OtherInv, NoJunk
<1> QED
  BY <1>2, <1>3, <1>4, <1>5

RingChain == RingInv /\ ChainInv

\* While the driver is idle, its ring stands.
LEMMA RingIdle == RingChain /\ UNCHANGED micVars => RingChain'
<1> SUFFICES ASSUME RingChain, UNCHANGED micVars PROVE RingChain'
  OBVIOUS
<1>1. /\ UNCHANGED <<mic_buf, done, queue, cur_buf, cur_off, heard, lost>>
      /\ RingInv /\ ChainInv
  BY DEF RingChain, micVars
<1>2. RingInv'
  BY <1>1 DEF RingInv, RingType, RingOrder, Ring, Full
<1>3. ChainInv'
  BY <1>1 DEF ChainInv, Follows, Latest, Ring
<1> QED
  BY <1>2, <1>3 DEF RingChain

\* A stopped stream has sent what it heard.
LEMMA StopKeepsOrder == LoopType /\ MicInv /\ Stop => MicInv'
<1> SUFFICES ASSUME LoopType, MicInv, Stop PROVE MicInv'
  OBVIOUS
<1>1. /\ UNCHANGED <<source, pos, frame, got, sent>> /\ lp = "send" /\ lp' = "end"
      /\ UNCHANGED <<mic_buf, cur_buf, cur_off, heard, lost>>
  BY DEF Stop, micVars
<1>2. Seen = frame /\ Seen' = Seen
  BY <1>1 DEF Seen
<1>3. \A s : InOrder(s) => InOrder(s)'
  BY <1>1 DEF InOrder, Follows
<1>4. \A a : NextIs(a) => NextIs(a)'
  BY <1>1 DEF NextIs, Follows, Latest
<1> QED
  BY <1>1, <1>2, <1>3, <1>4 DEF MicInv

LoopStands == RingChain /\ LoopInv /\ file \in FILES

\* The invariant of the live loop holds before the first read.
LEMMA LoopBegins == LoopInit => LoopStands
<1> SUFFICES ASSUME LoopInit PROVE LoopStands
  OBVIOUS
<1>1. /\ MicOpen /\ file \in FILES /\ pos = 0 /\ got = <<>> /\ sent = <<>> /\ stopped = FALSE
      /\ frame = [i \in 1 .. FRAME_LEN |-> Junk] /\ preemph_state = Silence
      /\ lp = IF source = "wav" /\ ~WavAccepted(file) THEN "end" ELSE "prime"
  BY DEF LoopInit
<1>2. /\ HOP_LEN \in Nat /\ HOP_LEN > 0 /\ FRAME_LEN \in Nat /\ FRAME_LEN > HOP_LEN
  BY FramesAssumption
<1>3. IsSeq(<<>>) /\ Len(<<>>) = 0 /\ DOMAIN <<>> = {}
  <2>1. IsSeq(<<>>) /\ Len(<<>>) = 0
    BY EmptyIsSeq
  <2> QED
    BY <2>1, SeqFacts
<1>4. RingInv
  BY <1>1, RingInit
<1>5. ChainInv
  <2>1. \A b \in Buffers : mic_buf[b] = <<>>
    BY <1>1 DEF MicOpen
  <2>2. \A k \in 1 .. MIC_N_BUF : Ring(k) \in Buffers
    BY <1>4, RingFacts
  <2>3. \A k \in 1 .. MIC_N_BUF : mic_buf[Ring(k)] = <<>>
    BY <2>1, <2>2
  <2>4. \A k \in 1 .. MIC_N_BUF - 1 : k + 1 \in 1 .. MIC_N_BUF
    BY MicAssumption
  <2>5. \A b \in Buffers : Len(mic_buf[b]) = 0
    BY <1>3, <2>1
  <2> QED
    BY <2>3, <2>4, <2>5 DEF ChainInv
<1>6. LoopType
  <2>1. frame = [j \in 1 .. FRAME_LEN |-> frame[j]]
    BY <1>1
  <2>2. Wanted \in {FRAME_LEN, HOP_LEN} /\ Len(got) < Wanted
    BY <1>1, <1>2, <1>3 DEF Wanted
  <2>3. IsSeq(got) /\ ~(Len(got) > 0) /\ IsSeq(sent)
    BY <1>1, <1>3
  <2> QED
    BY <1>1, <2>1, <2>2, <2>3 DEF LoopType
<1>7. SentInv
  BY <1>1, <1>3 DEF SentInv
<1>8. MicInv
  <2>1. SUFFICES ASSUME source = "mic" PROVE Seen = <<>>
    BY <1>1, <1>3 DEF MicInv, InOrder
  <2> QED
    BY <1>1, <2>1 DEF Seen
<1>9. WavInv
  <2>1. WavAccepted(file) => Size \in Nat /\ pos \in 0 .. Size
    BY <1>1, SizeIsNatural DEF Size
  <2> QED
    BY <1>1, <1>3, <2>1 DEF WavInv
<1>10. OtherInv
  BY <1>1, <1>3 DEF OtherInv
<1> QED
  BY <1>1, <1>4, <1>5, <1>6, <1>7, <1>8, <1>9, <1>10 DEF LoopStands, LoopInv, RingChain

\* Every step of the loop and of the driver keeps it.
LEMMA LoopGoesOn == LoopStands /\ LoopNext => LoopStands'
<1> SUFFICES ASSUME LoopStands, LoopNext PROVE LoopStands'
  OBVIOUS
<1>1. /\ RingInv /\ ChainInv /\ RingChain /\ LoopType /\ SentInv /\ MicInv /\ WavInv /\ OtherInv
      /\ file \in FILES
  BY DEF LoopStands, LoopInv, RingChain
<1>2. CASE ReadFile
  <2>1. source = "wav" /\ source' = source /\ file' = file /\ UNCHANGED micVars
    BY <1>2 DEF ReadFile
  <2>2. LoopType' /\ SentInv' /\ WavInv'
    BY <1>1, <1>2, ReadFileKeeps
  <2>3. MicInv' /\ OtherInv'
    BY <2>1 DEF MicInv, OtherInv
  <2> QED
    BY <1>1, <2>1, <2>2, <2>3, RingIdle DEF LoopStands, LoopInv
<1>3. CASE ReadSynth
  <2> DEFINE s == [k \in 1 .. Wanted |-> Made(pos + k)]
  <2>1. /\ source = "synth" /\ source' = source /\ file' = file /\ UNCHANGED micVars /\ Reading
        /\ ReadDone(s) /\ UNCHANGED <<got, preemph_state, sent>>
    BY <1>3 DEF ReadSynth
  <2>2. Wanted \in Nat /\ s = [k \in 1 .. Wanted |-> s[k]]
    BY <1>1, LoopFacts
  <2> HIDE DEF s
  <2>3. IsSeq(s) /\ Len(s) = Wanted
    BY <2>2, FunIsSeq
  <2>4. got' = <<>>
    <3>1. ~(Len(got) > 0) /\ Len(got) \in Nat /\ (got = <<>> <=> Len(got) = 0)
      BY <1>1, <2>1, LoopFacts DEF LoopType
    <3> QED
      BY <2>1, <3>1
  <2>5. Len(s) <= Wanted
    BY <2>2, <2>3
  <2>6. LoopType' /\ SentInv'
    BY <1>1, <2>1, <2>3, <2>4, <2>5, ReadKeepsFrames
  <2>7. MicInv' /\ WavInv'
    BY <2>1 DEF MicInv, WavInv
  <2>8. OtherInv'
    BY <1>1, <1>3, <2>1, OtherSteps
  <2> QED
    BY <1>1, <2>1, <2>6, <2>7, <2>8, RingIdle DEF LoopStands, LoopInv
<1>4. CASE ReadMic
  <2>1. source = "mic" /\ source' = source /\ file' = file
    BY <1>4 DEF ReadMic
  <2>2. LoopType' /\ SentInv' /\ RingInv' /\ ChainInv' /\ MicInv'
    BY <1>1, <1>4, MicReadKeepsTypes, MicReadKeepsOrder
  <2>3. WavInv'
    BY <2>1 DEF WavInv
  <2>4. OtherInv'
    BY <1>1, <1>4, <2>1, OtherSteps
  <2> QED
    BY <1>1, <2>1, <2>2, <2>3, <2>4 DEF LoopStands, LoopInv, RingChain
<1>5. CASE SendFrame
  <2>1. source' = source /\ file' = file /\ UNCHANGED micVars
    BY <1>5 DEF SendFrame
  <2>2. LoopType' /\ SentInv' /\ MicInv' /\ WavInv'
    BY <1>1, <1>5, SendKeepsFrames, MicSendKeepsOrder, SendKeepsFile
  <2>3. OtherInv'
    <3>1. CASE source = "wav"
      BY <2>1, <3>1 DEF OtherInv
    <3>2. CASE source # "wav"
      BY <1>1, <1>5, <3>2, OtherSteps
    <3> QED
      BY <3>1, <3>2
  <2> QED
    BY <1>1, <2>1, <2>2, <2>3, RingIdle DEF LoopStands, LoopInv
<1>6. CASE Stop
  <2>1. source' = source /\ file' = file /\ UNCHANGED micVars
    BY <1>6 DEF Stop
  <2>2. LoopType' /\ SentInv' /\ MicInv' /\ WavInv'
    BY <1>1, <1>6, StopKeepsFrames, StopKeepsOrder, StopKeepsFile
  <2>3. OtherInv'
    <3>1. CASE source = "wav"
      BY <2>1, <3>1 DEF OtherInv
    <3>2. CASE source # "wav"
      BY <1>1, <1>6, <3>2, OtherSteps
    <3> QED
      BY <3>1, <3>2
  <2> QED
    BY <1>1, <2>1, <2>2, <2>3, RingIdle DEF LoopStands, LoopInv
<1>7. CASE source = "mic" /\ MicHear /\ UNCHANGED loopVars
  <2>1. source = "mic" /\ file' = file /\ UNCHANGED loopVars
    BY <1>7 DEF loopVars
  <2>2. LoopType' /\ SentInv' /\ WavInv' /\ OtherInv'
    BY <1>1, <2>1, HearKeepsFrames
  <2>3. RingInv' /\ ChainInv' /\ MicInv'
    BY <1>1, <1>7, HearKeepsOrder
  <2> QED
    BY <1>1, <2>1, <2>2, <2>3 DEF LoopStands, LoopInv, RingChain
<1> QED
  BY <1>2, <1>3, <1>4, <1>5, <1>6, <1>7 DEF LoopNext

\* The featurizer does not touch it.
LEMMA LoopIdle == LoopStands /\ UNCHANGED <<loopVars, micVars>> => LoopStands'
<1> SUFFICES ASSUME LoopStands, UNCHANGED <<loopVars, micVars>> PROVE LoopStands'
  OBVIOUS
<1>1. /\ RingChain /\ LoopType /\ SentInv /\ MicInv /\ WavInv /\ OtherInv /\ file \in FILES
  BY DEF LoopStands, LoopInv
<1>2. /\ UNCHANGED <<source, file, pos, frame, got, lp, preemph_state, sent, stopped>>
      /\ UNCHANGED <<mic_buf, done, queue, cur_buf, cur_off, heard, lost>>
  BY DEF loopVars, micVars
<1>3. RingChain'
  BY <1>1, RingIdle
<1>4. LoopType' /\ SentInv'
  BY <1>1, <1>2 DEF LoopType, SentInv, Overlap, Wanted, Reading
<1>5. MicInv'
  <2>1. Seen' = Seen
    BY <1>2 DEF Seen
  <2>2. \A s : InOrder(s) => InOrder(s)'
    BY <1>2 DEF InOrder, Follows
  <2>3. \A a : NextIs(a) => NextIs(a)'
    BY <1>2 DEF NextIs, Follows, Latest
  <2> QED
    BY <1>1, <1>2, <2>1, <2>2, <2>3 DEF MicInv
<1>6. WavInv'
  <2>1. Size' = Size
    BY <1>2 DEF Size
  <2>2. \A d, k, n : FromFile(d, k, n) => FromFile(d, k, n)'
    BY <1>2 DEF FromFile
  <2>3. \A k : Short(k) => Short(k)'
    BY <1>2, <2>1 DEF Short
  <2> QED
    BY <1>1, <1>2, <2>1, <2>2, <2>3 DEF WavInv, NoJunk
<1>7. OtherInv'
  BY <1>1, <1>2 DEF OtherInv, NoJunk
<1> QED
  BY <1>1, <1>2, <1>3, <1>4, <1>5, <1>6, <1>7 DEF LoopStands, LoopInv

-----------------------------------------------------------------------------
(* The microphone. *)

\* The invariant implies the property of the microphone.
LEMMA HeardInOrder == LoopStands => MicInOrder
<1> SUFFICES ASSUME LoopStands, source = "mic" PROVE MicInOrder
  BY DEF MicInOrder
<1>1. /\ RingInv /\ LoopType /\ SentInv /\ MicInv
  BY DEF LoopStands, LoopInv, RingChain
<1>2. /\ HOP_LEN \in Nat /\ HOP_LEN > 0 /\ FRAME_LEN \in Nat /\ FRAME_LEN > HOP_LEN
      /\ Len(sent) \in Nat /\ DOMAIN sent = 1 .. Len(sent)
  BY <1>1, LoopFacts
<1>3. ASSUME NEW k \in DOMAIN sent, NEW i \in 1 .. FRAME_LEN - 1
      PROVE  /\ Number(sent[k].data[i]) + 1 .. Number(sent[k].data[i + 1]) - 1 \subseteq lost
             /\ Number(sent[k].data[i]) < Number(sent[k].data[i + 1])
  <2>1. InOrder(sent[k].data)
    BY <1>1 DEF MicInv
  <2>2. DOMAIN sent[k].data = 1 .. FRAME_LEN
    <3>1. sent[k].data = [j \in 1 .. FRAME_LEN |-> sent[k].data[j]]
      BY <1>1 DEF SentInv
    <3> QED
      BY <3>1
  <2>3. i + 1 \in 1 .. FRAME_LEN /\ (i + 1) - 1 = i /\ i + 1 > 1
    BY <1>2
  <2>4. Follows(Number(sent[k].data[(i + 1) - 1]), Number(sent[k].data[i + 1]))
    BY <2>1, <2>2, <2>3, InOrderFacts
  <2> QED
    BY <2>3, <2>4 DEF Follows
<1>4. ASSUME NEW k \in 2 .. Len(sent)
      PROVE  /\ SubSeq(sent[k].data, 1, FRAME_LEN - HOP_LEN)
                  = SubSeq(sent[k - 1].data, HOP_LEN + 1, FRAME_LEN)
             /\ sent[k].prev = sent[k - 1].data[HOP_LEN]
  <2>1. k \in DOMAIN sent /\ k > 1
    BY <1>2
  <2>2. Overlap(sent[k].prev, sent[k].data, sent[k - 1])
    BY <1>1, <2>1 DEF SentInv
  <2> DEFINE a == SubSeq(sent[k].data, 1, FRAME_LEN - HOP_LEN)
             b == SubSeq(sent[k - 1].data, HOP_LEN + 1, FRAME_LEN)
             n == FRAME_LEN - HOP_LEN
  <2>3. n \in Nat /\ 1 <= n /\ (n - 1) + 1 = n /\ FRAME_LEN - (HOP_LEN + 1) + 1 = n /\ HOP_LEN + 1 <= FRAME_LEN
        /\ (FRAME_LEN - (HOP_LEN + 1)) + 1 = n /\ HOP_LEN + 1 \in Int /\ FRAME_LEN \in Int /\ n \in Int /\ 1 \in Int
    BY <1>2
  <2>4. /\ IsSeq(a) /\ Len(a) = n
        /\ \A j \in 1 .. n : a[j] = sent[k].data[(1 + j) - 1]
    BY <2>3, PartSeq
  <2>5. /\ IsSeq(b) /\ Len(b) = n
        /\ \A j \in 1 .. n : b[j] = sent[k - 1].data[(HOP_LEN + 1 + j) - 1]
    BY <2>3, PartSeq
  <2> HIDE DEF a, b
  <2>6. \A j \in 1 .. n : a[j] = b[j]
    <3> TAKE j \in 1 .. n
    <3>1. (1 + j) - 1 = j /\ (HOP_LEN + 1 + j) - 1 = HOP_LEN + j
      BY <1>2, <2>3
    <3>2. sent[k].data[j] = sent[k - 1].data[HOP_LEN + j]
      BY <2>2 DEF Overlap
    <3> QED
      BY <2>4, <2>5, <3>1, <3>2
  <2>7. Len(a) = Len(b) /\ \A j \in 1 .. Len(a) : a[j] = b[j]
    BY <2>4, <2>5, <2>6
  <2>8. a = b
    BY <2>4, <2>5, <2>7, SameSeq
  <2> QED
    BY <2>2, <2>8 DEF a, b, Overlap
<1> QED
  BY <1>1, <1>3, <1>4, RingStands DEF MicInOrder

-----------------------------------------------------------------------------
(* The inductive invariant of the featurizer. *)

\* A record's frames are as long as frames are.
FramesWhole(frames) ==
  IsSeq(frames) /\ \A j \in 1 .. Len(frames) : IsSeq(frames[j].data) /\ Len(frames[j].data) = FRAME_LEN

\* Frames of one clip, from frame s + 1 on, and within it.
Cut(frames, clip, s) ==
  /\ s \in 0 .. CLIP_FRAMES - Len(frames)
  /\ \A j \in 1 .. Len(frames) : frames[j] = FrameAt(clip, s + j)

\* Records of n frames, each of its clip.
CutFrom(records, clips, n) ==
  /\ IsSeq(records) /\ IsSeq(clips) /\ Len(clips) = Len(records)
  /\ \A k \in 1 .. Len(records) :
       /\ FramesWhole(records[k].frames) /\ Len(records[k].frames) = n
       /\ \E s \in 0 .. CLIP_FRAMES : Cut(records[k].frames, clips[k], s)

FeatType ==
  /\ IsSeq(out) /\ IsSeq(accepted) /\ Len(accepted) = Len(out) /\ n_records = Len(out)
  /\ IsSeq(wbuf) /\ Len(wbuf) = WHOLE_MAX_SAMPLES
  /\ manifest \in Seq([label : Int, file : FILES, offset : Int])
  /\ \A k \in 1 .. Len(out) : FramesWhole(out[k].frames)

RecordLen == IF opt.mode = "all" THEN CLIP_FRAMES ELSE WIN_FRAMES

ClipRecords ==
  opt.mode # "whole" =>
    rec_frames = RecordLen /\ header.rec_frames = rec_frames /\ CutFrom(out, accepted, rec_frames)

WholeRecords ==
  opt.mode = "whole" =>
    /\ \A k \in 1 .. Len(out) : Len(accepted[k]) >= FRAME_LEN =>
         \A j \in 1 .. Len(out[k].frames) : out[k].frames[j] = FrameAt(accepted[k], j)
    /\ out # <<>> => Len(out[Len(out)].frames) = rec_frames

Patched ==
  closed /\ opt.mode # "stats" =>
    header.n_records = Len(out) /\ header.rec_frames = rec_frames

FeatInv == FeatType /\ ClipRecords /\ WholeRecords /\ Patched

\* The frames of a buffer are the frames of the signal in it.
LEMMA FramesOfFacts ==
  ASSUME NEW buf, NEW n \in Nat
  PROVE  /\ FramesWhole(FramesOf(Silence, buf, n)) /\ Len(FramesOf(Silence, buf, n)) = n
         /\ \A k \in 1 .. n : FramesOf(Silence, buf, n)[k] = FrameAt(buf, k)
<1> DEFINE fs == FramesOf(Silence, buf, n)
           part(k) == SubSeq(buf, (k - 1) * HOP_LEN + 1, (k - 1) * HOP_LEN + FRAME_LEN)
<1>1. /\ HOP_LEN \in Nat /\ HOP_LEN > 0 /\ FRAME_LEN \in Nat /\ FRAME_LEN > HOP_LEN
  BY FramesAssumption
<1>2. fs = [k \in 1 .. n |->
             [prev |-> IF k = 1 THEN Silence ELSE part(k - 1)[HOP_LEN], data |-> part(k)]]
  BY DEF FramesOf, MfccFrame, MfccState
<1>3. ASSUME NEW k \in Int
      PROVE  /\ IsSeq(part(k)) /\ Len(part(k)) = FRAME_LEN
             /\ \A j \in 1 .. FRAME_LEN : part(k)[j] = buf[Hops(k - 1) + j]
  <2> DEFINE lo == Hops(k - 1) + 1
             hi == Hops(k - 1) + FRAME_LEN
  <2>1. Hops(k - 1) \in Int
    BY HopFacts
  <2>2. part(k) = SubSeq(buf, lo, hi)
    BY DEF Hops
  <2>3. lo \in Int /\ hi \in Int /\ lo <= hi /\ (hi - lo) + 1 = FRAME_LEN
        /\ \A j \in 1 .. FRAME_LEN : (lo + j) - 1 = Hops(k - 1) + j
    BY <1>1, <2>1
  <2> HIDE DEF lo, hi
  <2>4. /\ IsSeq(SubSeq(buf, lo, hi)) /\ Len(SubSeq(buf, lo, hi)) = FRAME_LEN
        /\ \A j \in 1 .. FRAME_LEN : SubSeq(buf, lo, hi)[j] = buf[(lo + j) - 1]
    BY <2>3, PartSeq
  <2> HIDE DEF part
  <2> QED
    BY <2>2, <2>3, <2>4
<1>4. ASSUME NEW k \in 1 .. n
      PROVE  /\ fs[k] = FrameAt(buf, k)
             /\ fs[k].data = part(k)
  <2>1. /\ fs[k] = [prev |-> IF k = 1 THEN Silence ELSE part(k - 1)[HOP_LEN], data |-> part(k)]
        /\ fs[k].data = part(k)
    <3> HIDE DEF part
    <3> QED
      BY <1>2
  <2>2. k # 1 => part(k - 1)[HOP_LEN] = buf[(k - 1) * HOP_LEN]
    <3>1. k - 1 \in Int /\ HOP_LEN \in 1 .. FRAME_LEN /\ (k - 1) - 1 \in Int /\ ((k - 1) - 1) + 1 = k - 1
      BY <1>1
    <3>2. Hops((k - 1) - 1) + HOP_LEN = Hops(k - 1)
      BY <3>1, HopFacts
    <3>3. part(k - 1)[HOP_LEN] = buf[Hops((k - 1) - 1) + HOP_LEN]
      BY <1>3, <3>1
    <3> HIDE DEF part
    <3> QED
      BY <3>2, <3>3 DEF Hops
  <2> QED
    <3>1. FrameAt(buf, k) = [prev |-> IF k = 1 THEN Silence ELSE buf[(k - 1) * HOP_LEN], data |-> part(k)]
      BY DEF FrameAt
    <3> HIDE DEF part
    <3> QED
      BY <2>1, <2>2, <3>1
<1>5. fs = [k \in 1 .. n |-> fs[k]]
  BY <1>2
<1> HIDE DEF fs, part
<1>6. IsSeq(fs) /\ Len(fs) = n
  BY <1>5, FunIsSeq
<1>7. \A k \in 1 .. n : IsSeq(fs[k].data) /\ Len(fs[k].data) = FRAME_LEN
  BY <1>3, <1>4
<1> QED
  BY <1>4, <1>6, <1>7 DEF fs, FramesWhole

\* A frame is the same in two signals that agree up to its end.
LEMMA SameFrame ==
  ASSUME NEW a, NEW b, NEW k \in Nat, k > 0,
         \A p \in 1 .. Hops(k - 1) + FRAME_LEN : a[p] = b[p]
  PROVE  FrameAt(a, k) = FrameAt(b, k)
<1> DEFINE lo == Hops(k - 1) + 1
           hi == Hops(k - 1) + FRAME_LEN
<1>1. /\ HOP_LEN \in Nat /\ HOP_LEN > 0 /\ FRAME_LEN \in Nat /\ FRAME_LEN > HOP_LEN
  BY FramesAssumption
<1>2. Hops(k - 1) \in Int /\ Hops(k - 1) >= 0
  BY FrameEndFacts
<1>3. k # 1 => Hops(k - 1) >= 1
  <2>1. Hops(k - 1) = Hops((k - 1) - 1) + HOP_LEN
    BY FrameEndFacts
  <2>2. k # 1 => Hops((k - 1) - 1) >= 0
    <3>1. k # 1 => k - 1 \in Int /\ k - 1 >= 1
      OBVIOUS
    <3> QED
      BY <3>1, FrameEndFacts
  <2>3. Hops((k - 1) - 1) \in Int
    BY HopFacts
  <2> QED
    BY <1>1, <2>1, <2>2, <2>3
<1>4. k # 1 => a[Hops(k - 1)] = b[Hops(k - 1)]
  <2>1. k # 1 => Hops(k - 1) \in 1 .. Hops(k - 1) + FRAME_LEN
    BY <1>1, <1>2, <1>3
  <2> QED
    BY <2>1
<1>5. SubSeq(a, lo, hi) = SubSeq(b, lo, hi)
  <2>1. lo \in Int /\ hi \in Int /\ lo <= hi /\ (hi - lo) + 1 = FRAME_LEN
        /\ \A j \in 1 .. FRAME_LEN : (lo + j) - 1 \in 1 .. Hops(k - 1) + FRAME_LEN
    BY <1>1, <1>2
  <2> HIDE DEF lo, hi
  <2>2. /\ IsSeq(SubSeq(a, lo, hi)) /\ Len(SubSeq(a, lo, hi)) = FRAME_LEN
        /\ \A j \in 1 .. FRAME_LEN : SubSeq(a, lo, hi)[j] = a[(lo + j) - 1]
    BY <2>1, PartSeq
  <2>3. /\ IsSeq(SubSeq(b, lo, hi)) /\ Len(SubSeq(b, lo, hi)) = FRAME_LEN
        /\ \A j \in 1 .. FRAME_LEN : SubSeq(b, lo, hi)[j] = b[(lo + j) - 1]
    BY <2>1, PartSeq
  <2>4. /\ Len(SubSeq(a, lo, hi)) = Len(SubSeq(b, lo, hi))
        /\ \A j \in 1 .. Len(SubSeq(a, lo, hi)) : SubSeq(a, lo, hi)[j] = SubSeq(b, lo, hi)[j]
    BY <2>1, <2>2, <2>3
  <2> QED
    BY <2>2, <2>3, <2>4, SameSeq
<1>6. \A s : FrameAt(s, k) = [prev |-> IF k = 1 THEN Silence ELSE s[Hops(k - 1)], data |-> SubSeq(s, lo, hi)]
  BY DEF FrameAt, Hops
<1> HIDE DEF lo, hi
<1> QED
  BY <1>4, <1>5, <1>6

\* A clip is at least a window long.
LEMMA ClipFramesNatural ==
  CLIP_FRAMES \in Nat /\ CLIP_FRAMES >= 1 /\ WIN_FRAMES \in 1 .. CLIP_FRAMES
<1>1. FRAME_LEN \in Nat /\ CLIP_SAMPLES \in Nat /\ CLIP_SAMPLES >= FRAME_LEN /\ HOP_LEN \in Nat /\ HOP_LEN > 0
      /\ WIN_FRAMES \in 1 .. CLIP_FRAMES
  BY FramesAssumption, FeaturizeAssumption
<1>2. CLIP_SAMPLES - FRAME_LEN \in Nat
  BY <1>1
<1>3. (CLIP_SAMPLES - FRAME_LEN) \div HOP_LEN \in Nat
  BY <1>1, <1>2, QuotientBelow
<1> QED
  BY <1>1, <1>3 DEF CLIP_FRAMES

\* The records that a clip gives are cut from it.
LEMMA RecordsAreCut ==
  ASSUME NEW clip, NEW label, NEW rs \in RecordChoices(clip, label)
  PROVE  CutFrom(rs, Of(rs, clip), RecordLen)
<1> DEFINE fs == ClipFrames(clip)
<1>1. CLIP_FRAMES \in Nat /\ WIN_FRAMES \in 1 .. CLIP_FRAMES /\ JITTER \in Nat
  BY ClipFramesNatural, FeaturizeAssumption
<1>2. /\ FramesWhole(fs) /\ Len(fs) = CLIP_FRAMES
      /\ \A k \in 1 .. CLIP_FRAMES : fs[k] = FrameAt(clip, k)
  BY <1>1, FramesOfFacts DEF ClipFrames
<1> HIDE DEF fs
<1>3. ASSUME NEW s \in 0 .. CLIP_FRAMES - WIN_FRAMES
      PROVE  /\ FramesWhole(SubSeq(fs, s + 1, s + WIN_FRAMES)) /\ Len(SubSeq(fs, s + 1, s + WIN_FRAMES)) = WIN_FRAMES
             /\ Cut(SubSeq(fs, s + 1, s + WIN_FRAMES), clip, s)
  <2> DEFINE lo == s + 1
             hi == s + WIN_FRAMES
             p == SubSeq(fs, lo, hi)
  <2>1. lo \in Int /\ hi \in Int /\ lo <= hi /\ (hi - lo) + 1 = WIN_FRAMES
        /\ \A j \in 1 .. WIN_FRAMES : (lo + j) - 1 = s + j /\ s + j \in 1 .. CLIP_FRAMES
    BY <1>1
  <2> HIDE DEF lo, hi
  <2>2. /\ IsSeq(p) /\ Len(p) = WIN_FRAMES
        /\ \A j \in 1 .. WIN_FRAMES : p[j] = fs[(lo + j) - 1]
    BY <2>1, PartSeq
  <2> HIDE DEF p
  <2>3. \A j \in 1 .. WIN_FRAMES : p[j] = fs[s + j] /\ p[j] = FrameAt(clip, s + j) /\ s + j \in 1 .. CLIP_FRAMES
    BY <1>2, <2>1, <2>2
  <2>4. FramesWhole(p)
    BY <1>2, <2>2, <2>3 DEF FramesWhole
  <2>5. Cut(p, clip, s)
    BY <2>2, <2>3 DEF Cut
  <2> QED
    BY <2>2, <2>4, <2>5 DEF p, lo, hi
<1>4. CASE opt.mode = "all"
  <2> DEFINE r == [label |-> label, frames |-> fs]
  <2>1. rs = <<r>> /\ RecordLen = CLIP_FRAMES
    BY <1>4 DEF RecordChoices, RecordLen, fs
  <2>2. r.frames = fs
    OBVIOUS
  <2> HIDE DEF r
  <2>3. rs = [k \in 1 .. 1 |-> rs[k]] /\ rs[1] = r /\ 1 \in Nat
    BY <2>1
  <2>4. IsSeq(rs) /\ Len(rs) = 1
    BY <2>3, FunIsSeq
  <2>5. Of(rs, clip) = [k \in 1 .. 1 |-> clip]
    BY <2>4 DEF Of
  <2>6. Of(rs, clip) = [k \in 1 .. 1 |-> Of(rs, clip)[k]] /\ Of(rs, clip)[1] = clip
    BY <2>5
  <2>7. IsSeq(Of(rs, clip)) /\ Len(Of(rs, clip)) = 1
    BY <2>6, FunIsSeq
  <2>8. Cut(fs, clip, 0)
    <3>1. \A j \in 1 .. CLIP_FRAMES : 0 + j = j
      BY <1>1
    <3>2. 0 \in 0 .. CLIP_FRAMES - CLIP_FRAMES
      BY <1>1
    <3> QED
      BY <1>2, <3>1, <3>2 DEF Cut
  <2>9. 0 \in 0 .. CLIP_FRAMES
    BY <1>1
  <2> QED
    BY <1>2, <2>1, <2>2, <2>3, <2>4, <2>6, <2>7, <2>8, <2>9 DEF CutFrom
<1>5. CASE opt.mode # "all"
  <2>1. PICK s0 \in BestWindows : rs = Crops(fs, label, s0)
    BY <1>5 DEF RecordChoices, fs
  <2> DEFINE starts == <<s0, s0 - JITTER, s0 + JITTER>>
             n == IF opt.jitter THEN 3 ELSE 1
             at(c) == IntoClip(starts[c])
             r(c) == [label |-> label, frames |-> SubSeq(fs, at(c) + 1, at(c) + WIN_FRAMES)]
  <2>2. rs = [c \in 1 .. n |-> r(c)]
    BY <2>1 DEF Crops
  <2>3. \A c \in 1 .. n : at(c) \in 0 .. CLIP_FRAMES - WIN_FRAMES
    <3> TAKE c \in 1 .. n
    <3>1. c = 1 \/ c = 2 \/ c = 3
      OBVIOUS
    <3>2. starts[c] = s0 \/ starts[c] = s0 - JITTER \/ starts[c] = s0 + JITTER
      BY <3>1
    <3>3. starts[c] \in Int
      BY <1>1, <3>2 DEF BestWindows
    <3> HIDE DEF starts
    <3> QED
      BY <1>1, <3>3 DEF IntoClip, Least
  <2>4. n \in Nat
    OBVIOUS
  <2> HIDE DEF n, at
  <2>5. \A c \in 1 .. n : /\ FramesWhole(r(c).frames) /\ Len(r(c).frames) = WIN_FRAMES
                          /\ \E s \in 0 .. CLIP_FRAMES : Cut(r(c).frames, clip, s)
    <3> TAKE c \in 1 .. n
    <3>1. r(c).frames = SubSeq(fs, at(c) + 1, at(c) + WIN_FRAMES)
      OBVIOUS
    <3>2. at(c) \in 0 .. CLIP_FRAMES /\ at(c) \in 0 .. CLIP_FRAMES - WIN_FRAMES
      BY <1>1, <2>3
    <3> HIDE DEF r
    <3> QED
      BY <1>3, <3>1, <3>2
  <2> HIDE DEF r
  <2>6. rs = [c \in 1 .. n |-> rs[c]] /\ \A c \in 1 .. n : rs[c] = r(c)
    BY <2>2
  <2>7. IsSeq(rs) /\ Len(rs) = n
    BY <2>4, <2>6, FunIsSeq
  <2>8. /\ Of(rs, clip) = [k \in 1 .. n |-> Of(rs, clip)[k]]
        /\ \A k \in 1 .. n : Of(rs, clip)[k] = clip
    BY <2>7 DEF Of
  <2>9. IsSeq(Of(rs, clip)) /\ Len(Of(rs, clip)) = n
    BY <2>4, <2>8, FunIsSeq
  <2>10. RecordLen = WIN_FRAMES
    BY <1>5 DEF RecordLen
  <2> QED
    BY <2>5, <2>6, <2>7, <2>8, <2>9, <2>10 DEF CutFrom
<1> QED
  BY <1>4, <1>5

\* Records cut from their clips, one after the other.
LEMMA CutTogether ==
  ASSUME NEW a, NEW c, NEW b, NEW d, NEW n, CutFrom(a, c, n), CutFrom(b, d, n)
  PROVE  CutFrom(a \o b, c \o d, n)
<1>1. /\ IsSeq(a) /\ IsSeq(b) /\ IsSeq(c) /\ IsSeq(d) /\ Len(c) = Len(a) /\ Len(d) = Len(b)
  BY DEF CutFrom
<1>2. Len(a) \in Nat /\ Len(b) \in Nat
  BY <1>1, SeqFacts
<1>3. /\ IsSeq(a \o b) /\ Len(a \o b) = Len(a) + Len(b)
      /\ \A k \in 1 .. Len(a) : (a \o b)[k] = a[k]
      /\ \A k \in 1 .. Len(b) : (a \o b)[Len(a) + k] = b[k]
  BY <1>1, ConcatSeq
<1>4. /\ IsSeq(c \o d) /\ Len(c \o d) = Len(a) + Len(b)
      /\ \A k \in 1 .. Len(a) : (c \o d)[k] = c[k]
      /\ \A k \in 1 .. Len(b) : (c \o d)[Len(a) + k] = d[k]
  <2>1. /\ IsSeq(c \o d) /\ Len(c \o d) = Len(c) + Len(d)
        /\ \A k \in 1 .. Len(c) : (c \o d)[k] = c[k]
        /\ \A k \in 1 .. Len(d) : (c \o d)[Len(c) + k] = d[k]
    <3>1. IsSeq(c) /\ IsSeq(d)
      BY <1>1
    <3> QED
      BY <3>1, ConcatSeq
  <2> QED
    BY <1>1, <2>1
<1> DEFINE Good(r, q) == /\ FramesWhole(r.frames) /\ Len(r.frames) = n
                         /\ \E s \in 0 .. CLIP_FRAMES : Cut(r.frames, q, s)
<1>5. /\ \A k \in 1 .. Len(a) : Good(a[k], c[k])
      /\ \A k \in 1 .. Len(b) : Good(b[k], d[k])
  BY DEF CutFrom
<1> HIDE DEF Good
<1>6. \A k \in 1 .. Len(a) + Len(b) : Good((a \o b)[k], (c \o d)[k])
  <2> TAKE k \in 1 .. Len(a) + Len(b)
  <2>1. CASE k \in 1 .. Len(a)
    BY <1>3, <1>4, <1>5, <2>1
  <2>2. CASE k \notin 1 .. Len(a)
    <3> DEFINE j == k - Len(a)
    <3>1. j \in 1 .. Len(b) /\ Len(a) + j = k
      BY <1>2, <2>2
    <3> HIDE DEF j
    <3>2. (a \o b)[k] = b[j] /\ (c \o d)[k] = d[j]
      BY <1>3, <1>4, <3>1
    <3> QED
      BY <1>5, <3>1, <3>2
  <2> QED
    BY <2>1, <2>2
<1> QED
  BY <1>3, <1>4, <1>6 DEF CutFrom, Good

\* No record is cut from no clip.
LEMMA NothingIsCut == ASSUME NEW clip, NEW n PROVE CutFrom(<<>>, <<>>, n) /\ Of(<<>>, clip) = <<>>
<1>1. IsSeq(<<>>) /\ Len(<<>>) = 0
  BY EmptyIsSeq
<1>2. Of(<<>>, clip) = <<>>
  <2> DEFINE o == Of(<<>>, clip)
  <2>1. o = [k \in 1 .. 0 |-> clip]
    BY <1>1 DEF Of
  <2>2. o = [k \in 1 .. 0 |-> o[k]] /\ 0 \in Nat
    BY <2>1
  <2> HIDE DEF o
  <2>3. IsSeq(o) /\ Len(o) = 0
    BY <2>2, FunIsSeq
  <2> QED
    BY <2>3, SeqFacts DEF o
<1> QED
  BY <1>1, <1>2 DEF CutFrom

\* A line of the manifest names a file.
LEMMA LineFacts ==
  ASSUME FeatType, NextLine
  PROVE  /\ Line.file \in FILES
         /\ manifest' \in Seq([label : Int, file : FILES, offset : Int])
         /\ ~closed
<1> DEFINE R == [label : Int, file : FILES, offset : Int]
<1>1. manifest \in Seq(R) /\ manifest # <<>> /\ manifest' = Tail(manifest) /\ ~closed
  BY DEF FeatType, NextLine
<1> HIDE DEF R
<1>2. Head(manifest) \in R /\ Tail(manifest) \in Seq(R)
  BY <1>1, HeadTailProperties
<1>3. Line.file \in FILES
  BY <1>2 DEF Line, R
<1> QED
  BY <1>1, <1>2, <1>3 DEF R

\* The record of a file that is read whole.
LEMMA WholeRecordFacts ==
  ASSUME FeatType, NEW f \in FILES, WholeReadable(f), WholeFrames(WholeSamples(f)) >= 1
  PROVE  LET n == WholeFrames(WholeSamples(f))
             fs == FramesOf(Silence, Overwritten(f), n)
         IN  /\ FramesWhole(fs) /\ Len(fs) = n
             /\ Len(Content(f)) >= FRAME_LEN =>
                  \A j \in 1 .. Len(fs) : fs[j] = FrameAt(Content(f), j)
<1> DEFINE l == WholeSamples(f)
           n == WholeFrames(l)
           now == Overwritten(f)
           fs == FramesOf(Silence, now, n)
           c == Content(f)
<1>1. /\ HOP_LEN \in Nat /\ HOP_LEN > 0 /\ FRAME_LEN \in Nat /\ FRAME_LEN > HOP_LEN
      /\ WHOLE_MAX_SAMPLES \in Nat /\ WHOLE_MAX_SAMPLES >= FRAME_LEN
  BY FramesAssumption, FeaturizeAssumption
<1>2. PICK a \in Nat, b \in Nat : a = f.claimed /\ b = f.there
  BY FilesAssumption
<1>3. /\ f.channels = 1 /\ l = Least(a \div 2, WHOLE_MAX_SAMPLES) /\ l <= b \div 2
      /\ SamplesIn(f) = Least(a, b) \div 2
  BY <1>2 DEF WholeReadable, WholeSamples, SamplesIn
<1>4. PICK u \in Nat, v \in Nat : u = a \div 2 /\ v = b \div 2
  <2>1. a \div 2 \in Nat /\ b \div 2 \in Nat
    OBVIOUS
  <2> QED
    BY <2>1
<1>5. Least(a, b) \div 2 \in Nat /\ Least(a, b) \div 2 = Least(u, v)
  <2>1. CASE a < b
    BY <1>4, <2>1 DEF Least
  <2>2. CASE ~(a < b)
    BY <1>4, <2>2 DEF Least
  <2> QED
    BY <2>1, <2>2
<1>6. l \in Nat /\ l = Least(u, WHOLE_MAX_SAMPLES) /\ l <= v
  BY <1>1, <1>3, <1>4 DEF Least
<1>7. l <= WHOLE_MAX_SAMPLES /\ l <= SamplesIn(f) /\ SamplesIn(f) \in Nat
      /\ (SamplesIn(f) >= FRAME_LEN => l >= FRAME_LEN)
  BY <1>1, <1>3, <1>4, <1>5, <1>6 DEF Least
<1> HIDE DEF l
<1>8. n \in Nat
  <2>1. PICK x \in Int : x = l - FRAME_LEN
    BY <1>1, <1>6
  <2>2. n = Quotient(x, HOP_LEN) + 1
    BY <2>1 DEF WholeFrames
  <2>3. x >= 0 => x \div HOP_LEN \in Nat
    BY <1>1, <2>1, QuotientBelow
  <2>4. x < 0 => -x \in Nat /\ (-x) \div HOP_LEN \in Nat
    <3>1. x < 0 => -x \in Nat
      BY <2>1
    <3> QED
      BY <1>1, <3>1, QuotientBelow
  <2>5. Quotient(x, HOP_LEN) \in Int
    <3>1. CASE x >= 0
      BY <2>3, <3>1 DEF Quotient
    <3>2. CASE ~(x >= 0)
      <4>1. Quotient(x, HOP_LEN) = -((-x) \div HOP_LEN)
        BY <3>2 DEF Quotient
      <4>2. (-x) \div HOP_LEN \in Nat
        BY <2>1, <2>4, <3>2
      <4> QED
        BY <4>1, <4>2
    <3> QED
      BY <3>1, <3>2
  <2>6. n >= 1
    BY DEF l
  <2> HIDE DEF n
  <2> QED
    BY <2>2, <2>5, <2>6
<1>9. FramesWhole(fs) /\ Len(fs) = n /\ \A j \in 1 .. n : fs[j] = FrameAt(now, j)
  <2> HIDE DEF n, now
  <2> QED
    BY <1>8, FramesOfFacts
<1>10. c = [i \in 1 .. SamplesIn(f) |-> Sample(f, i)] /\ IsSeq(c) /\ Len(c) = SamplesIn(f)
  <2>1. c = [i \in 1 .. SamplesIn(f) |-> Sample(f, i)]
    BY DEF Content
  <2>2. c = [i \in 1 .. SamplesIn(f) |-> c[i]]
    BY <2>1
  <2> HIDE DEF c
  <2> QED
    BY <1>7, <2>1, <2>2, FunIsSeq
<1>11. \A p \in 1 .. l : now[p] = Sample(f, p)
  <2>1. now = [i \in 1 .. Len(wbuf) |-> IF i <= Least(WholeSamples(f), f.there \div 2) THEN Sample(f, i) ELSE wbuf[i]]
    BY DEF Overwritten
  <2>2. Len(wbuf) = WHOLE_MAX_SAMPLES
    BY DEF FeatType
  <2>3. Least(WholeSamples(f), f.there \div 2) = l
    <3>1. Least(l, v) = l
      <4>1. l \in Nat /\ v \in Nat /\ l <= v
        BY <1>6
      <4>2. \A y, z \in Nat : y <= z => Least(y, z) = y
        BY DEF Least
      <4> QED
        BY <4>1, <4>2
    <3> QED
      BY <1>2, <1>4, <3>1 DEF l
  <2> HIDE DEF now
  <2> TAKE p \in 1 .. l
  <2>4. p \in 1 .. Len(wbuf) /\ p <= l
    BY <1>1, <1>6, <1>7, <2>2
  <2> QED
    BY <2>1, <2>3, <2>4
<1>12. ASSUME Len(c) >= FRAME_LEN, NEW j \in 1 .. n
       PROVE  fs[j] = FrameAt(c, j)
  <2>1. l >= FRAME_LEN
    BY <1>7, <1>10, <1>12
  <2>2. PICK x \in Nat : x = l - FRAME_LEN
    BY <1>1, <1>6, <2>1
  <2>3. n = x \div HOP_LEN + 1
    BY <2>2 DEF WholeFrames, Quotient
  <2>4. x \div HOP_LEN \in Nat /\ (x \div HOP_LEN) * HOP_LEN <= x
    BY <1>1, <2>2, QuotientBelow
  <2> HIDE DEF n
  <2>5. n - 1 = x \div HOP_LEN /\ n - 1 \in Int
    BY <2>3, <2>4
  <2>6. Hops(n - 1) <= x
    BY <2>4, <2>5 DEF Hops
  <2>7. j \in Nat /\ j > 0 /\ j - 1 \in Int /\ j - 1 <= n - 1
    BY <1>8
  <2>8. Hops(j - 1) <= Hops(n - 1) /\ Hops(j - 1) \in Int /\ Hops(n - 1) \in Int
    BY <2>5, <2>7, HopFacts
  <2>9. Hops(j - 1) + FRAME_LEN <= l
    BY <1>1, <1>6, <2>2, <2>6, <2>8
  <2>10. \A p \in 1 .. Hops(j - 1) + FRAME_LEN : p \in 1 .. l /\ p \in 1 .. SamplesIn(f)
    BY <1>1, <1>6, <1>7, <2>8, <2>9
  <2> HIDE DEF now, c
  <2>11. \A p \in 1 .. Hops(j - 1) + FRAME_LEN : now[p] = c[p]
    BY <1>10, <1>11, <2>10
  <2>12. FrameAt(now, j) = FrameAt(c, j)
    BY <2>7, <2>11, SameFrame
  <2> QED
    BY <1>9, <2>12
<1> QED
  BY <1>9, <1>12 DEF l

\* A line of whole mode keeps the featurizer's invariant.
LEMMA WholeKeepsRecords == FeatInv /\ WholeLine => FeatInv'
<1> SUFFICES ASSUME FeatInv, WholeLine PROVE FeatInv'
  OBVIOUS
<1> DEFINE f == Line.file
           n == WholeFrames(WholeSamples(f))
           now == Overwritten(f)
           fs == FramesOf(Silence, now, n)
           r == [label |-> Line.label, frames |-> fs]
<1>1. FeatType /\ ClipRecords /\ WholeRecords /\ Patched
  BY DEF FeatInv
<1>2. NextLine /\ opt.mode = "whole" /\ UNCHANGED <<opt, header, closed>>
  BY DEF WholeLine
<1>3. f \in FILES /\ manifest' \in Seq([label : Int, file : FILES, offset : Int]) /\ ~closed
  BY <1>1, <1>2, LineFacts
<1>4. IsSeq(wbuf) /\ Len(wbuf) = WHOLE_MAX_SAMPLES /\ WHOLE_MAX_SAMPLES \in Nat
  BY <1>1, FeaturizeAssumption DEF FeatType
<1>5. IsSeq(now) /\ Len(now) = WHOLE_MAX_SAMPLES
  <2>1. now = [i \in 1 .. WHOLE_MAX_SAMPLES |-> IF i <= Least(WholeSamples(f), f.there \div 2) THEN Sample(f, i) ELSE wbuf[i]]
    BY <1>4 DEF Overwritten
  <2>2. now = [i \in 1 .. WHOLE_MAX_SAMPLES |-> now[i]]
    BY <2>1
  <2> HIDE DEF now
  <2> QED
    BY <1>4, <2>2, FunIsSeq
<1>6. ClipRecords' /\ Patched'
  BY <1>2, <1>3 DEF ClipRecords, Patched
<1>7. ASSUME wbuf' = wbuf \/ wbuf' = now, UNCHANGED <<n_records, rec_frames, out, accepted>>
      PROVE  FeatInv'
  <2>1. FeatType'
    BY <1>1, <1>3, <1>4, <1>5, <1>7 DEF FeatType, FramesWhole
  <2>2. WholeRecords'
    BY <1>1, <1>2, <1>7 DEF WholeRecords, FrameAt
  <2> QED
    BY <1>6, <2>1, <2>2 DEF FeatInv
<1>8. CASE /\ WholeReadable(f) /\ n >= 1 /\ wbuf' = now /\ rec_frames' = n
           /\ Emit(<<r>>, <<Content(f)>>)
  <2>1. /\ FramesWhole(fs) /\ Len(fs) = n
        /\ Len(Content(f)) >= FRAME_LEN => \A j \in 1 .. Len(fs) : fs[j] = FrameAt(Content(f), j)
    BY <1>1, <1>3, <1>8, WholeRecordFacts
  <2>2. r.frames = fs
    OBVIOUS
  <2> HIDE DEF fs, r
  <2> DEFINE c == Content(f)
             m == Len(out)
  <2>3. /\ out' = out \o <<r>> /\ n_records' = n_records + Len(<<r>>) /\ accepted' = accepted \o <<c>>
    BY <1>8 DEF Emit
  <2> HIDE DEF f, n, now, c
  <2>4. /\ IsSeq(out) /\ IsSeq(accepted) /\ Len(accepted) = m /\ n_records = m
        /\ \A k \in 1 .. m : FramesWhole(out[k].frames)
    BY <1>1 DEF FeatType
  <2>5. m \in Nat
    BY <2>4, SeqFacts
  <2>6. \A e : IsSeq(<<e>>) /\ Len(<<e>>) = 1 /\ <<e>>[1] = e
    <3> TAKE e
    <3>1. <<e>> = [k \in 1 .. 1 |-> <<e>>[k]] /\ 1 \in Nat /\ <<e>>[1] = e
      OBVIOUS
    <3> QED
      BY <3>1, FunIsSeq
  <2>7. /\ IsSeq(out') /\ Len(out') = m + 1 /\ \A k \in 1 .. m : out'[k] = out[k]
        /\ out'[m + 1] = r
    <3>1. IsSeq(out) /\ IsSeq(<<r>>)
      BY <2>4, <2>6
    <3>2. /\ IsSeq(out \o <<r>>) /\ Len(out \o <<r>>) = m + Len(<<r>>)
          /\ \A k \in 1 .. m : (out \o <<r>>)[k] = out[k]
          /\ \A k \in 1 .. Len(<<r>>) : (out \o <<r>>)[m + k] = <<r>>[k]
      BY <3>1, ConcatSeq
    <3> HIDE DEF m
    <3>3. 1 \in 1 .. 1
      OBVIOUS
    <3> QED
      BY <2>3, <2>6, <3>2, <3>3
  <2>8. /\ IsSeq(accepted') /\ Len(accepted') = m + 1 /\ \A k \in 1 .. m : accepted'[k] = accepted[k]
        /\ accepted'[m + 1] = c
    <3>1. IsSeq(accepted) /\ IsSeq(<<c>>)
      BY <2>4, <2>6
    <3>2. /\ IsSeq(accepted \o <<c>>) /\ Len(accepted \o <<c>>) = Len(accepted) + Len(<<c>>)
          /\ \A k \in 1 .. Len(accepted) : (accepted \o <<c>>)[k] = accepted[k]
          /\ \A k \in 1 .. Len(<<c>>) : (accepted \o <<c>>)[Len(accepted) + k] = <<c>>[k]
      BY <3>1, ConcatSeq
    <3> HIDE DEF m
    <3>3. 1 \in 1 .. 1
      OBVIOUS
    <3> QED
      BY <2>3, <2>4, <2>6, <3>2, <3>3
  <2> HIDE DEF m
  <2>9. \A k \in 1 .. m + 1 : k \in 1 .. m \/ k = m + 1
    BY <2>5
  <2>10. n_records' = m + 1
    BY <2>3, <2>4, <2>6
  <2>11. FeatType'
    <3>1. \A k \in 1 .. m + 1 : FramesWhole(out'[k].frames)
      BY <2>1, <2>2, <2>4, <2>7, <2>9
    <3>2. wbuf' = Overwritten(f)
      BY <1>8 DEF now
    <3>3. IsSeq(wbuf') /\ Len(wbuf') = WHOLE_MAX_SAMPLES
      BY <1>5, <3>2 DEF now
    <3>4. \A k \in 1 .. Len(out') : FramesWhole(out[k].frames)'
      BY <2>7, <3>1 DEF FramesWhole
    <3> QED
      BY <1>3, <2>7, <2>8, <2>10, <3>3, <3>4 DEF FeatType
  <2>12. WholeRecords'
    <3>1. \A k \in 1 .. m : Len(accepted[k]) >= FRAME_LEN =>
            \A j \in 1 .. Len(out[k].frames) : out[k].frames[j] = FrameAt(accepted[k], j)
      BY <1>1, <1>2 DEF WholeRecords, m
    <3>2. \A k \in 1 .. m + 1 : Len(accepted'[k]) >= FRAME_LEN =>
            \A j \in 1 .. Len(out'[k].frames) : out'[k].frames[j] = FrameAt(accepted'[k], j)
      <4> TAKE k \in 1 .. m + 1
      <4>1. CASE k \in 1 .. m
        BY <2>7, <2>8, <3>1, <4>1
      <4>2. CASE k = m + 1
        BY <2>1, <2>2, <2>7, <2>8, <4>2 DEF c
      <4> QED
        BY <2>9, <4>1, <4>2
    <3>3. Len(out'[Len(out')].frames) = rec_frames'
      BY <1>8, <2>1, <2>2, <2>7
    <3> QED
      BY <1>2, <2>7, <3>2, <3>3 DEF WholeRecords, FrameAt
  <2> QED
    BY <1>6, <2>11, <2>12 DEF FeatInv
<1> QED
  <2>1. \/ Skip
        \/ wbuf' = now /\ UNCHANGED <<n_records, rec_frames, s_n, out, accepted>>
        \/ /\ WholeReadable(f) /\ n >= 1 /\ wbuf' = now /\ rec_frames' = n
           /\ Emit(<<r>>, <<Content(f)>>)
    BY DEF WholeLine
  <2> HIDE DEF now, n, r
  <2> QED
    BY <1>7, <1>8, <2>1 DEF Skip

\* So does a line of the clip modes, skipped, counted or emitted with its copy.
LEMMA ClipKeepsRecords == FeatInv /\ ClipLine => FeatInv'
<1> SUFFICES ASSUME FeatInv, ClipLine PROVE FeatInv'
  OBVIOUS
<1> DEFINE clean == ClipOf(Line.file, Line.offset)
<1>1. FeatType /\ ClipRecords /\ WholeRecords /\ Patched
  BY DEF FeatInv
<1>2. NextLine /\ opt.mode # "whole" /\ UNCHANGED <<opt, header, closed, wbuf, rec_frames>>
  BY DEF ClipLine, Skip
<1>3. manifest' \in Seq([label : Int, file : FILES, offset : Int]) /\ ~closed
  BY <1>1, <1>2, LineFacts
<1>4. WholeRecords' /\ Patched' /\ RecordLen' = RecordLen
  BY <1>2, <1>3 DEF WholeRecords, Patched, RecordLen
<1>5. /\ IsSeq(out) /\ IsSeq(accepted) /\ Len(accepted) = Len(out) /\ n_records = Len(out)
      /\ \A k \in 1 .. Len(out) : FramesWhole(out[k].frames)
      /\ rec_frames = RecordLen /\ header.rec_frames = rec_frames /\ CutFrom(out, accepted, RecordLen)
  BY <1>1, <1>2 DEF FeatType, ClipRecords
<1>6. ASSUME UNCHANGED <<n_records, out, accepted>>
      PROVE  FeatInv'
  <2>1. FeatType'
    BY <1>1, <1>2, <1>3, <1>6 DEF FeatType
  <2>2. ClipRecords'
    BY <1>2, <1>4, <1>5, <1>6 DEF ClipRecords
  <2> QED
    BY <1>4, <2>1, <2>2 DEF FeatInv
<1>7. ASSUME NEW a, NEW c, CutFrom(a, c, RecordLen), Emit(a, c)
      PROVE  FeatInv'
  <2>1. out' = out \o a /\ accepted' = accepted \o c /\ n_records' = n_records + Len(a)
    BY <1>7 DEF Emit
  <2>2. CutFrom(out', accepted', RecordLen)
    BY <1>5, <1>7, <2>1, CutTogether
  <2>3. Len(out') = Len(out) + Len(a)
    <3>1. IsSeq(out) /\ IsSeq(a)
      BY <1>5, <1>7 DEF CutFrom
    <3> QED
      BY <2>1, <3>1, ConcatSeq
  <2>4. n_records' = Len(out')
    BY <1>5, <2>1, <2>3
  <2>5. /\ IsSeq(out') /\ IsSeq(accepted') /\ Len(accepted') = Len(out')
        /\ \A k \in 1 .. Len(out') : FramesWhole(out'[k].frames)
    BY <2>2 DEF CutFrom
  <2>6. FeatType'
    BY <1>1, <1>2, <1>3, <2>4, <2>5 DEF FeatType
  <2>7. ClipRecords'
    BY <1>2, <1>4, <1>5, <2>2 DEF ClipRecords
  <2> QED
    BY <1>4, <2>6, <2>7 DEF FeatInv
<1>8. ASSUME NEW copy \in StretchChoices(clean, Line.label),
             NEW clip,
             NEW own \in RecordChoices(clip, Line.label),
             NEW extra \in CopyChoices(copy, Line.label)
      PROVE  CutFrom(own \o extra, Of(own, clip) \o Of(extra, Head(copy \o <<clip>>)), RecordLen)
  <2>1. CutFrom(own, Of(own, clip), RecordLen)
    BY <1>8, RecordsAreCut
  <2>2. CutFrom(extra, Of(extra, Head(copy \o <<clip>>)), RecordLen)
    <3>1. CASE extra = <<>>
      <4>1. CutFrom(<<>>, <<>>, RecordLen) /\ Of(<<>>, Head(copy \o <<clip>>)) = <<>>
        BY NothingIsCut
      <4> QED
        BY <3>1, <4>1
    <3>2. CASE extra # <<>>
      <4>1. copy # <<>> /\ extra \in RecordChoices(copy[1], Line.label)
        BY <1>8, <3>2 DEF CopyChoices
      <4>2. \E c : copy = <<c>>
        BY <4>1 DEF StretchChoices
      <4>3. PICK c : copy = <<c>>
        BY <4>2
      <4>4. copy[1] = c
        BY <4>3
      <4>5. Head(copy \o <<clip>>) = c
        <5> DEFINE t == <<clip>>
        <5>1. copy = [i \in 1 .. 1 |-> copy[i]] /\ t = [i \in 1 .. 1 |-> t[i]] /\ 1 \in Nat
          BY <4>3
        <5> HIDE DEF t
        <5>2. IsSeq(copy) /\ Len(copy) = 1 /\ IsSeq(t) /\ Len(t) = 1
          BY <5>1, FunIsSeq
        <5>3. IsSeq(copy) /\ IsSeq(t)
          BY <5>2
        <5>4. /\ IsSeq(copy \o t) /\ Len(copy \o t) = Len(copy) + Len(t)
              /\ \A i \in 1 .. Len(copy) : (copy \o t)[i] = copy[i]
          BY <5>3, ConcatSeq
        <5>5. Len(copy \o t) = 2 /\ (copy \o t)[1] = c
          BY <4>4, <5>2, <5>4
        <5>6. \E S : copy \o t \in Seq(S)
          BY <5>4 DEF IsSeq
        <5>7. PICK S : copy \o t \in Seq(S)
          BY <5>6
        <5>8. copy \o t # <<>>
          BY <5>5, EmptyIsSeq
        <5>9. Head(copy \o t) = (copy \o t)[1]
          BY <5>7, <5>8, HeadTailProperties
        <5> QED
          BY <5>5, <5>9 DEF t
      <4> QED
        BY <4>1, <4>4, <4>5, RecordsAreCut
    <3> QED
      BY <3>1, <3>2
  <2> QED
    BY <2>1, <2>2, CutTogether
<1> HIDE DEF clean
<1>9. \/ Skip
      \/ \E copy \in StretchChoices(clean, Line.label), clip \in MixChoices(clean, Line.label) :
           \/ UNCHANGED <<n_records, out, accepted>>
           \/ \E own \in RecordChoices(clip, Line.label), extra \in CopyChoices(copy, Line.label) :
                Emit(own \o extra, Of(own, clip) \o Of(extra, Head(copy \o <<clip>>)))
  BY DEF ClipLine, clean
<1>10. CASE Skip
  BY <1>6, <1>10 DEF Skip
<1>11. CASE ~Skip
  <2>1. PICK copy \in StretchChoices(clean, Line.label), clip \in MixChoices(clean, Line.label) :
           \/ UNCHANGED <<n_records, out, accepted>>
           \/ \E own \in RecordChoices(clip, Line.label), extra \in CopyChoices(copy, Line.label) :
                Emit(own \o extra, Of(own, clip) \o Of(extra, Head(copy \o <<clip>>)))
    BY <1>9, <1>11
  <2>2. CASE UNCHANGED <<n_records, out, accepted>>
    BY <1>6, <2>2
  <2>3. CASE \E own \in RecordChoices(clip, Line.label), extra \in CopyChoices(copy, Line.label) :
                Emit(own \o extra, Of(own, clip) \o Of(extra, Head(copy \o <<clip>>)))
    <3>1. PICK own \in RecordChoices(clip, Line.label), extra \in CopyChoices(copy, Line.label) :
                Emit(own \o extra, Of(own, clip) \o Of(extra, Head(copy \o <<clip>>)))
      BY <2>3
    <3>2. CutFrom(own \o extra, Of(own, clip) \o Of(extra, Head(copy \o <<clip>>)), RecordLen)
      BY <1>8
    <3> QED
      BY <1>7, <3>1, <3>2
  <2> QED
    BY <2>1, <2>2, <2>3
<1> QED
  BY <1>10, <1>11

\* The header is patched with the count of what was written.
LEMMA FinishKeepsRecords == FeatInv /\ FeatFinish => FeatInv'
<1> SUFFICES ASSUME FeatInv, FeatFinish PROVE FeatInv'
  OBVIOUS
<1>1. FeatType /\ ClipRecords /\ WholeRecords /\ Patched
  BY DEF FeatInv
<1>2. /\ UNCHANGED <<opt, manifest, wbuf, n_records, rec_frames, s_n, out, accepted>>
      /\ header' = IF opt.mode = "stats" THEN header
                   ELSE [n_records |-> n_records,
                         rec_frames |-> IF opt.mode = "whole" THEN rec_frames ELSE header.rec_frames]
  BY DEF FeatFinish
<1>3. FeatType' /\ WholeRecords'
  BY <1>1, <1>2 DEF FeatType, WholeRecords
<1>4. n_records = Len(out) /\ (opt.mode # "whole" => header.rec_frames = rec_frames)
  BY <1>1 DEF FeatType, ClipRecords
<1>5. Patched'
  BY <1>2, <1>4 DEF Patched
<1>6. ClipRecords'
  <2>1. opt.mode # "whole" => header'.rec_frames = header.rec_frames
    BY <1>2
  <2> QED
    BY <1>1, <1>2, <2>1 DEF ClipRecords, RecordLen
<1> QED
  BY <1>3, <1>5, <1>6 DEF FeatInv

\* Nothing is written at first.
LEMMA FeatBegins == FeatInit => FeatInv
<1> SUFFICES ASSUME FeatInit PROVE FeatInv
  OBVIOUS
<1>1. /\ manifest \in MANIFESTS /\ wbuf = [i \in 1 .. WHOLE_MAX_SAMPLES |-> Silence]
      /\ n_records = 0 /\ out = <<>> /\ accepted = <<>> /\ closed = FALSE
      /\ rec_frames = RecordLen /\ header = [n_records |-> 0, rec_frames |-> rec_frames]
  BY DEF FeatInit, RecordLen
<1>2. IsSeq(<<>>) /\ Len(<<>>) = 0
  BY EmptyIsSeq
<1>3. IsSeq(wbuf) /\ Len(wbuf) = WHOLE_MAX_SAMPLES
  <2>1. wbuf = [i \in 1 .. WHOLE_MAX_SAMPLES |-> wbuf[i]] /\ WHOLE_MAX_SAMPLES \in Nat
    BY <1>1, FeaturizeAssumption
  <2> QED
    BY <2>1, FunIsSeq
<1>4. manifest \in Seq([label : Int, file : FILES, offset : Int])
  BY <1>1, FeaturizeAssumption
<1>5. FeatType
  <2>1. IsSeq(out) /\ IsSeq(accepted) /\ Len(out) = 0 /\ Len(accepted) = 0 /\ n_records = 0
    BY <1>1, <1>2
  <2>2. \A k \in 1 .. Len(out) : FramesWhole(out[k].frames)
    BY <2>1
  <2> QED
    BY <1>3, <1>4, <2>1, <2>2 DEF FeatType
<1>6. ClipRecords
  <2>1. CutFrom(<<>>, <<>>, rec_frames)
    BY NothingIsCut
  <2> QED
    BY <1>1, <2>1 DEF ClipRecords
<1>7. WholeRecords /\ Patched
  BY <1>1, <1>2 DEF WholeRecords, Patched
<1> QED
  BY <1>5, <1>6, <1>7 DEF FeatInv

\* The live loop does not touch the featurizer.
LEMMA FeatIdle == FeatInv /\ UNCHANGED featVars => FeatInv'
<1> SUFFICES ASSUME FeatInv, UNCHANGED featVars PROVE FeatInv'
  OBVIOUS
<1>1. /\ UNCHANGED <<opt, manifest, wbuf, n_records, rec_frames, s_n, out, header, closed, accepted>>
      /\ FeatType /\ ClipRecords /\ WholeRecords /\ Patched
  BY DEF FeatInv, featVars
<1>2. FeatType' /\ WholeRecords' /\ Patched'
  BY <1>1 DEF FeatType, WholeRecords, Patched
<1>3. ClipRecords'
  BY <1>1 DEF ClipRecords, RecordLen
<1> QED
  BY <1>2, <1>3 DEF FeatInv

\* The invariant implies the property of the records.
LEMMA TrueRecords == FeatInv => RecordsAreTrue
<1> SUFFICES ASSUME FeatInv PROVE RecordsAreTrue
  OBVIOUS
<1>1. FeatType /\ ClipRecords /\ WholeRecords /\ Patched
  BY DEF FeatInv
<1>2. /\ IsSeq(out) /\ Len(out) \in Nat /\ DOMAIN out = 1 .. Len(out)
      /\ \A k \in 1 .. Len(out) : IsSeq(out[k].frames) /\ DOMAIN out[k].frames = 1 .. Len(out[k].frames)
  BY <1>1, SeqFacts DEF FeatType, FramesWhole
<1>3. RecordsAreOfOneClip
  <2> SUFFICES ASSUME opt.mode # "whole", NEW k \in DOMAIN out
               PROVE  \E s \in 0 .. CLIP_FRAMES - Len(out[k].frames) :
                        \A j \in DOMAIN out[k].frames : out[k].frames[j] = FrameAt(accepted[k], s + j)
    BY DEF RecordsAreOfOneClip
  <2>1. \E s \in 0 .. CLIP_FRAMES : Cut(out[k].frames, accepted[k], s)
    BY <1>1, <1>2 DEF ClipRecords, CutFrom
  <2>2. PICK s \in 0 .. CLIP_FRAMES : Cut(out[k].frames, accepted[k], s)
    BY <2>1
  <2>3. /\ s \in 0 .. CLIP_FRAMES - Len(out[k].frames)
        /\ \A j \in 1 .. Len(out[k].frames) : out[k].frames[j] = FrameAt(accepted[k], s + j)
    BY <2>2 DEF Cut
  <2> QED
    BY <1>2, <2>3
<1>4. WholeIsTheSignal
  BY <1>1, <1>2 DEF WholeIsTheSignal, WholeRecords
<1>5. HeaderTrue
  <2> SUFFICES ASSUME closed, opt.mode # "stats", opt.mode = "whole" => Len(out) <= 1, NEW k \in DOMAIN out
               PROVE  Len(out[k].frames) = header.rec_frames
    BY <1>1 DEF HeaderTrue, Patched
  <2>1. header.rec_frames = rec_frames
    BY <1>1 DEF Patched
  <2>2. CASE opt.mode = "whole"
    <3>1. k = Len(out) /\ Len(out) = 1
      BY <1>2, <2>2
    <3>2. out # <<>>
      BY <1>2, <3>1, SeqFacts
    <3> QED
      BY <1>1, <2>1, <2>2, <3>1, <3>2 DEF WholeRecords
  <2>3. CASE opt.mode # "whole"
    BY <1>1, <1>2, <2>1, <2>3 DEF ClipRecords, CutFrom
  <2> QED
    BY <2>2, <2>3
<1> QED
  BY <1>3, <1>4, <1>5 DEF RecordsAreTrue

-----------------------------------------------------------------------------
(* A file, streamed live. *)

\* Its frames are the frames of the file.
LEMMA FileFrameIs ==
  ASSUME LoopType, SentInv, WavInv, source = "wav", Size \in Nat,
         NEW k \in 1 .. Len(sent), FrameEnd(k) <= Size
  PROVE  sent[k] = FrameAt(Content(file), k)
<1> DEFINE c == Content(file)
           lo == Hops(k - 1) + 1
           hi == Hops(k - 1) + FRAME_LEN
           b == SubSeq(c, lo, hi)
           d == sent[k].data
<1>1. /\ HOP_LEN \in Nat /\ HOP_LEN > 0 /\ FRAME_LEN \in Nat /\ FRAME_LEN > HOP_LEN
      /\ Len(sent) \in Nat /\ DOMAIN sent = 1 .. Len(sent)
  BY LoopFacts
<1>2. k \in Int /\ k >= 1 /\ k \in DOMAIN sent
  BY <1>1
<1>3. /\ Hops(k - 1) \in Int /\ Hops(k - 1) >= 0 /\ FrameEnd(k) = Hops(k - 1) + FRAME_LEN
      /\ Hops(k - 1) + FRAME_LEN <= Size
  BY <1>2, FrameEndFacts
<1>4. /\ sent[k] = [prev |-> sent[k].prev, data |-> d]
      /\ d = [j \in 1 .. FRAME_LEN |-> d[j]]
  BY <1>2 DEF SentInv
<1>5. \A j \in 1 .. FRAME_LEN : d[j] = Sample(file, Hops(k - 1) + j)
  BY <1>2 DEF WavInv, FromFile
<1>6. \A i \in 1 .. Size : c[i] = Sample(file, i)
  BY DEF Content, Size
<1> HIDE DEF c
<1>7. lo \in Int /\ hi \in Int /\ lo <= hi /\ (hi - lo) + 1 = FRAME_LEN
      /\ \A j \in 1 .. FRAME_LEN : (lo + j) - 1 = Hops(k - 1) + j /\ Hops(k - 1) + j \in 1 .. Size
  BY <1>1, <1>3
<1> HIDE DEF lo, hi
<1>8. /\ IsSeq(b) /\ Len(b) = FRAME_LEN
      /\ \A j \in 1 .. FRAME_LEN : b[j] = c[(lo + j) - 1]
  BY <1>7, PartSeq
<1> HIDE DEF b, d
<1>9. IsSeq(d) /\ Len(d) = FRAME_LEN
  BY <1>1, <1>4, FunIsSeq
<1>10. \A j \in 1 .. FRAME_LEN : d[j] = b[j]
  BY <1>5, <1>6, <1>7, <1>8
<1>11. Len(d) = Len(b) /\ \A j \in 1 .. Len(d) : d[j] = b[j]
  BY <1>8, <1>9, <1>10
<1>12. d = b
  BY <1>8, <1>9, <1>11, SameSeq
<1>13. sent[k].prev = IF k = 1 THEN Silence ELSE c[Hops(k - 1)]
  <2>1. CASE k = 1
    <3>1. sent # <<>>
      BY <1>1, LoopFacts
    <3> QED
      BY <2>1, <3>1 DEF SentInv
  <2>2. CASE k # 1
    <3>1. k - 1 \in 1 .. Len(sent) /\ k - 1 \in Int /\ k - 1 >= 1 /\ k > 1
      BY <1>1, <1>2, <2>2
    <3>2. sent[k].prev = sent[k - 1].data[HOP_LEN]
      BY <1>2, <3>1 DEF SentInv, Overlap
    <3>3. /\ FrameEnd(k) = FrameEnd(k - 1) + HOP_LEN /\ FrameEnd(k - 1) \in Int
          /\ Hops(k - 1) = Hops((k - 1) - 1) + HOP_LEN /\ Hops((k - 1) - 1) \in Int /\ Hops((k - 1) - 1) >= 0
      <4>1. FrameEnd((k - 1) + 1) = FrameEnd(k - 1) + HOP_LEN /\ FrameEnd(k - 1) \in Int
            /\ Hops(k - 1) = Hops((k - 1) - 1) + HOP_LEN /\ Hops((k - 1) - 1) >= 0
        BY <3>1, FrameEndFacts
      <4>2. (k - 1) + 1 = k /\ (k - 1) - 1 \in Int
        BY <1>2
      <4> QED
        BY <4>1, <4>2, HopFacts
    <3>4. FrameEnd(k - 1) <= Size
      BY <1>1, <1>3, <3>3
    <3>5. \A j \in 1 .. FRAME_LEN : sent[k - 1].data[j] = Sample(file, Hops((k - 1) - 1) + j)
      BY <1>1, <3>1, <3>4 DEF WavInv, FromFile
    <3>6. HOP_LEN \in 1 .. FRAME_LEN
      BY <1>1
    <3>7. sent[k].prev = Sample(file, Hops(k - 1))
      BY <3>2, <3>3, <3>5, <3>6
    <3>8. Hops(k - 1) \in 1 .. Size
      BY <1>1, <1>3, <3>3
    <3> QED
      BY <1>6, <2>2, <3>7, <3>8
  <2> QED
    BY <2>1, <2>2
<1>14. FrameAt(c, k) = [prev |-> IF k = 1 THEN Silence ELSE c[Hops(k - 1)], data |-> b]
  BY DEF FrameAt, Hops, b, lo, hi
<1> QED
  BY <1>4, <1>12, <1>13, <1>14 DEF c, d

\* The content of a file is as long as its size says.
LEMMA ContentFacts ==
  ASSUME Size \in Nat
  PROVE  Len(Content(file)) = Size
<1> DEFINE c == Content(file)
<1>1. c = [i \in 1 .. Size |-> c[i]]
  BY DEF Content, Size
<1> HIDE DEF c
<1>2. IsSeq(c) /\ Len(c) = Size
  BY <1>1, FunIsSeq
<1> QED
  BY <1>2 DEF c

\* How many whole frames a file has, and what is left of it.
LEMMA WholeFramesAre ==
  ASSUME NEW c, Len(c) \in Nat
  PROVE  /\ WholeFramesIn(c) \in Nat
         /\ \A k \in Nat : k >= 1 /\ k <= WholeFramesIn(c) => FrameEnd(k) <= Len(c)
         /\ Len(c) < FRAME_LEN => WholeFramesIn(c) = 0 /\ Remainder(c) = Len(c)
         /\ \A k \in Nat : \A r \in 0 .. HOP_LEN - 1 :
              k >= 1 /\ Len(c) = FrameEnd(k) + r => WholeFramesIn(c) = k /\ Remainder(c) = r
<1>1. /\ HOP_LEN \in Nat /\ HOP_LEN > 0 /\ FRAME_LEN \in Nat
  BY FramesAssumption
<1> DEFINE n == Len(c)
           w == WholeFramesIn(c)
<1>2. n < FRAME_LEN => w = 0 /\ Remainder(c) = n
  BY DEF WholeFramesIn, Remainder
<1>3. ASSUME n >= FRAME_LEN
      PROVE  \E x \in Nat : /\ x = n - FRAME_LEN /\ w = (x \div HOP_LEN) + 1 /\ Remainder(c) = x % HOP_LEN
                            /\ x \div HOP_LEN \in Nat /\ (x \div HOP_LEN) * HOP_LEN <= x
  <2>1. PICK x \in Nat : x = n - FRAME_LEN
    BY <1>1, <1>3
  <2>2. ~(n < FRAME_LEN)
    BY <1>1, <1>3
  <2>3. w = (x \div HOP_LEN) + 1 /\ Remainder(c) = x % HOP_LEN
    BY <2>1, <2>2 DEF WholeFramesIn, Remainder
  <2>4. x \div HOP_LEN \in Nat /\ (x \div HOP_LEN) * HOP_LEN <= x
    BY <1>1, QuotientBelow
  <2> QED
    BY <2>1, <2>3, <2>4
<1> HIDE DEF w, n
<1>4. n \in Nat
  BY DEF n
<1>5. w \in Nat
  BY <1>1, <1>2, <1>3, <1>4
<1>6. ASSUME NEW k \in Nat, k >= 1, k <= w
      PROVE  FrameEnd(k) <= n
  <2>1. n >= FRAME_LEN
    BY <1>1, <1>2, <1>4, <1>6
  <2>2. PICK x \in Nat : /\ x = n - FRAME_LEN /\ w = (x \div HOP_LEN) + 1
                         /\ x \div HOP_LEN \in Nat /\ (x \div HOP_LEN) * HOP_LEN <= x
    BY <1>3, <2>1
  <2>3. w - 1 = x \div HOP_LEN /\ w - 1 \in Int /\ k - 1 \in Int /\ k - 1 <= w - 1
    BY <1>5, <1>6, <2>2
  <2>4. Hops(w - 1) <= x
    BY <2>2, <2>3 DEF Hops
  <2>5. Hops(k - 1) <= Hops(w - 1) /\ Hops(k - 1) \in Int /\ Hops(w - 1) \in Int
    BY <2>3, HopFacts
  <2>6. FrameEnd(k) = Hops(k - 1) + FRAME_LEN
    BY DEF FrameEnd
  <2> QED
    BY <1>1, <1>4, <2>2, <2>4, <2>5, <2>6
<1>7. ASSUME NEW k \in Nat, NEW r \in 0 .. HOP_LEN - 1, k >= 1, n = FrameEnd(k) + r
      PROVE  w = k /\ Remainder(c) = r
  <2>1. FrameEnd(k) = Hops(k - 1) + FRAME_LEN /\ Hops(k - 1) \in Int /\ Hops(k - 1) >= 0
    BY <1>7, FrameEndFacts
  <2>2. n >= FRAME_LEN
    BY <1>1, <1>4, <1>7, <2>1
  <2>3. PICK x \in Nat : /\ x = n - FRAME_LEN /\ w = (x \div HOP_LEN) + 1 /\ Remainder(c) = x % HOP_LEN
    BY <1>3, <2>2
  <2>4. PICK q \in Nat : q = k - 1
    BY <1>7
  <2>5. x = Hops(q) + r
    <3>1. Hops(q) = Hops(k - 1)
      BY <2>4
    <3>2. PICK y \in Int : y = Hops(k - 1)
      BY <2>1
    <3>3. n = (y + FRAME_LEN) + r /\ x = n - FRAME_LEN /\ r \in Int
      BY <1>7, <2>1, <2>3, <3>2
    <3>4. x = y + r
      BY <1>1, <1>4, <3>3
    <3> QED
      BY <3>1, <3>2, <3>4
  <2>6. x = q * HOP_LEN + r
    BY <2>5 DEF Hops
  <2>7. x \div HOP_LEN = q /\ x % HOP_LEN = r
    BY <1>1, <2>6, QuotientIs
  <2> QED
    BY <2>3, <2>4, <2>7
<1> QED
  BY <1>2, <1>5, <1>6, <1>7 DEF n, w

\* The frames of a file streamed live are those of the file, and how many there are.
LEMMA LiveFramesAre == LoopStands => LiveFrames
<1> SUFFICES ASSUME LoopStands, source = "wav" PROVE LiveFrames
  BY DEF LiveFrames
<1> DEFINE c == Content(file)
           whole == WholeFramesIn(c)
           m == Len(sent)
<1>1. LoopType /\ SentInv /\ WavInv
  BY DEF LoopStands, LoopInv
<1>2. /\ HOP_LEN \in Nat /\ HOP_LEN > 0 /\ FRAME_LEN \in Nat /\ FRAME_LEN > HOP_LEN
      /\ m \in Nat /\ DOMAIN sent = 1 .. m /\ (sent = <<>> <=> m = 0)
  BY <1>1, LoopFacts
<1>3. CASE ~WavAccepted(file)
  <2>1. sent = <<>>
    BY <1>1, <1>3 DEF WavInv
  <2>2. DOMAIN sent = {}
    BY <1>2, <2>1
  <2> QED
    BY <1>3, <2>2 DEF LiveFrames
<1>4. CASE WavAccepted(file)
  <2>1. Size \in Nat /\ Len(c) = Size
    <3>1. Size \in Nat
      BY <1>1, <1>4 DEF WavInv
    <3> QED
      BY <3>1, ContentFacts
  <2> HIDE DEF c
  <2>2. /\ whole \in Nat
        /\ \A k \in Nat : k >= 1 /\ k <= whole => FrameEnd(k) <= Size
        /\ Size < FRAME_LEN => whole = 0 /\ Remainder(c) = Size
        /\ \A k \in Nat : \A r \in 0 .. HOP_LEN - 1 :
             k >= 1 /\ Size = FrameEnd(k) + r => whole = k /\ Remainder(c) = r
    <3>1. Len(c) \in Nat
      BY <2>1
    <3> QED
      BY <2>1, <3>1, WholeFramesAre
  <2> HIDE DEF whole
  <2>3. \A k \in DOMAIN sent : k <= whole => sent[k] = FrameAt(c, k)
    <3> TAKE k \in DOMAIN sent
    <3>1. k \in Nat /\ k >= 1 /\ k \in 1 .. Len(sent)
      BY <1>2
    <3> QED
      BY <1>1, <2>1, <2>2, <3>1, FileFrameIs DEF c
  <2>4. ASSUME lp = "end", ~stopped
        PROVE  m = whole + (IF Remainder(c) > 0 THEN 1 ELSE 0)
    <3>1. \/ m = 0 /\ Size = 0
          \/ m >= 1 /\ Size = FrameEnd(m)
          \/ m >= 1 /\ Short(m - 1)
      <4>1. sent # <<>> => m >= 1
        BY <1>2
      <4>2. \/ sent = <<>> /\ Size = 0
            \/ sent # <<>> /\ Size = FrameEnd(Len(sent))
            \/ sent # <<>> /\ Short(Len(sent) - 1)
        BY <1>1, <1>4, <2>4 DEF WavInv
      <4> QED
        BY <1>2, <4>1, <4>2
    <3> HIDE DEF m
    <3>2. CASE m = 0 /\ Size = 0
      BY <1>2, <2>2, <3>2
    <3>3. CASE m >= 1 /\ Size = FrameEnd(m)
      <4>1. Size = FrameEnd(m) + 0 /\ 0 \in 0 .. HOP_LEN - 1
        BY <1>2, <2>1, <3>3
      <4>2. whole = m /\ Remainder(c) = 0
        BY <1>2, <2>2, <3>3, <4>1
      <4> QED
        BY <1>2, <4>2
    <3>4. CASE m >= 1 /\ Short(m - 1)
      <4>1. m - 1 \in Nat /\ m - 1 \in Int /\ (m - 1) + 1 = m
        BY <1>2, <3>4
      <4>2. Size < FrameEnd(m) /\ IF m - 1 = 0 THEN Size > 0 ELSE FrameEnd(m - 1) < Size
        BY <3>4, <4>1 DEF Short
      <4>3. CASE m = 1
        <5>1. FrameEnd(1) = FRAME_LEN
          BY <4>1, FrameEndFacts
        <5>2. Size < FRAME_LEN /\ Size > 0
          BY <4>2, <4>3, <5>1
        <5> QED
          BY <2>1, <2>2, <4>3, <5>2
      <4>4. CASE m # 1
        <5>1. FrameEnd((m - 1) + 1) = FrameEnd(m - 1) + HOP_LEN /\ FrameEnd(m - 1) \in Int
          BY <4>1, FrameEndFacts
        <5>2. PICK r \in Int : r = Size - FrameEnd(m - 1)
          BY <2>1, <5>1
        <5>3. r \in 0 .. HOP_LEN - 1 /\ r > 0 /\ Size = FrameEnd(m - 1) + r /\ m - 1 >= 1
          BY <1>2, <2>1, <4>1, <4>2, <4>4, <5>1, <5>2
        <5>4. whole = m - 1 /\ Remainder(c) = r
          BY <2>2, <4>1, <5>3
        <5> QED
          BY <4>1, <5>3, <5>4
      <4> QED
        BY <4>3, <4>4
    <3> QED
      BY <3>1, <3>2, <3>3, <3>4
  <2> QED
    BY <2>3, <2>4 DEF LiveFrames, c, whole, m
<1> QED
  BY <1>3, <1>4

\* Unwritten memory is analysed only in the one frame of a short file.
LEMMA JunkIsOfShortFiles == LoopStands => JunkOnlyIfShort
<1> SUFFICES ASSUME LoopStands,
                    NEW k \in DOMAIN sent, NEW i \in 1 .. FRAME_LEN, sent[k].data[i] = Junk
             PROVE  source = "wav" /\ SamplesIn(file) < FRAME_LEN /\ Len(sent) = 1
  BY DEF JunkOnlyIfShort
<1>1. WavInv /\ OtherInv
  BY DEF LoopStands, LoopInv
<1>2. ~NoJunk(sent[k].data)
  BY DEF NoJunk
<1> QED
  BY <1>1, <1>2 DEF WavInv, OtherInv, Size

\* Lengths and positions.
LEMMA TypesAreOK == LoopStands /\ FeatInv => TypeOK
<1> SUFFICES ASSUME LoopStands, FeatInv PROVE TypeOK
  OBVIOUS
<1>1. LoopType /\ SentInv /\ RingInv /\ FeatType
  BY DEF LoopStands, LoopInv, RingChain, FeatInv
<1>2. /\ HOP_LEN \in Nat /\ FRAME_LEN \in Nat /\ FRAME_LEN > HOP_LEN
      /\ Len(frame) = FRAME_LEN /\ Len(got) \in Nat /\ Wanted \in {FRAME_LEN, HOP_LEN}
  BY <1>1, LoopFacts
<1>3. Len(got) < FRAME_LEN
  BY <1>1, <1>2 DEF LoopType
<1>4. cur_buf \in Buffers /\ cur_off \in 0 .. MIC_BUF_LEN - 1
  BY <1>1 DEF RingInv, RingType
<1>5. \A k \in DOMAIN sent : Len(sent[k].data) = FRAME_LEN
  <2> TAKE k \in DOMAIN sent
  <2>1. sent[k].data = [j \in 1 .. FRAME_LEN |-> sent[k].data[j]]
    BY <1>1 DEF SentInv
  <2> QED
    BY <1>2, <2>1, FunIsSeq
<1>6. \A k \in DOMAIN out : \A j \in DOMAIN out[k].frames : Len(out[k].frames[j].data) = FRAME_LEN
  <2>1. DOMAIN out = 1 .. Len(out) /\ \A k \in 1 .. Len(out) : FramesWhole(out[k].frames)
    BY <1>1, SeqFacts DEF FeatType
  <2>2. \A k \in 1 .. Len(out) : DOMAIN out[k].frames = 1 .. Len(out[k].frames)
    BY <2>1, SeqFacts DEF FramesWhole
  <2> QED
    BY <2>1, <2>2 DEF FramesWhole
<1> QED
  BY <1>2, <1>3, <1>4, <1>5, <1>6 DEF TypeOK

-----------------------------------------------------------------------------
(* The theorems. *)

\* Both invariants hold always.
LEMMA FrontEndStands == Spec => [](LoopStands /\ FeatInv)
<1>1. Init => LoopStands /\ FeatInv
  BY LoopBegins, FeatBegins DEF Init
<1>2. LoopStands /\ FeatInv /\ [Next]_vars => (LoopStands /\ FeatInv)'
  <2> SUFFICES ASSUME LoopStands, FeatInv, [Next]_vars PROVE LoopStands' /\ FeatInv'
    OBVIOUS
  <2>1. CASE Live
    BY <2>1, LoopGoesOn, FeatIdle DEF Live
  <2>2. CASE Train
    <3>1. LoopStands'
      BY <2>2, LoopIdle DEF Train
    <3>2. FeatInv'
      BY <2>2, WholeKeepsRecords, ClipKeepsRecords, FinishKeepsRecords DEF Train, FeatNext
    <3> QED
      BY <3>1, <3>2
  <2>3. CASE UNCHANGED vars
    BY <2>3, LoopIdle, FeatIdle DEF vars
  <2> QED
    BY <2>1, <2>2, <2>3 DEF Next
<1> QED
  BY <1>1, <1>2, PTL DEF Spec

\* The loop of main.c analyses what the microphone recorded in its order, each frame a hop
\* behind the last, and mic_read and the driver pass the buffers of audio.c in order.
THEOREM MicIsHeardInOrder == Spec => []MicInOrder
<1>1. LoopStands => MicInOrder
  BY HeardInOrder
<1> QED
  BY <1>1, FrontEndStands, PTL

\* What the loop of main.c analyses of a WAV file is its frames, in order, with at most one
\* more at its end, and memory that was never written only if the file is shorter than a frame.
THEOREM LiveSendsTheSignal == Spec => []LiveIsTheSignal
<1>1. LoopStands /\ FeatInv => LiveIsTheSignal
  BY LiveFramesAre, JunkIsOfShortFiles, TypesAreOK DEF LiveIsTheSignal
<1> QED
  BY <1>1, FrontEndStands, PTL

\* Every record featurize.c writes holds frames of its own clip or file, each analysed as live,
\* under a header that counts them.
THEOREM RecordsHoldTheirClips == Spec => []RecordsAreTrue
<1>1. FeatInv => RecordsAreTrue
  BY TrueRecords
<1> QED
  BY <1>1, FrontEndStands, PTL

=============================================================================
