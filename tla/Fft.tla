-------------------------------- MODULE Fft --------------------------------
(***************************************************************************)
(* The in-place radix-2 transform of host/src/mfcc.c, loop iteration by    *)
(* loop iteration: the bit reversal, then the butterflies of growing len,  *)
(* with the twiddle factor built up by repeated multiplication.            *)
(*                                                                         *)
(* The C works on complex doubles, re and im apart.  Only their ring       *)
(* operations and the powers of exp(-2 pi i / n) are used, so the model    *)
(* takes the numbers from the integers modulo a prime in which ROOT is a   *)
(* primitive FFT_LEN-th root of one: addresses and order are the C's, and  *)
(* the arithmetic is exact.                                                *)
(***************************************************************************)
EXTENDS Integers, FiniteSetsExt

CONSTANTS
  FFT_LEN,        \* transform length, a power of two (512)
  PRIME, ROOT,    \* the field, and its primitive FFT_LEN-th root of one
  SIGNALS         \* inputs

RECURSIVE Raised(_, _)
Raised(w, e) == IF e = 0 THEN 1 ELSE (w * Raised(w, e - 1)) % PRIME

ASSUME FftAssumption ==
  /\ FFT_LEN \in {2^e : e \in 1 .. 16}
  /\ Raised(ROOT, FFT_LEN \div 2) = PRIME - 1

VARIABLES
  signal,         \* the samples the transform was given
  re,             \* the array, in place
  loop            \* [phase, i, j, len, k, c]: the C's loop variables

fftVars == <<signal, re, loop>>

FftInit ==
  /\ signal \in SIGNALS /\ re = signal
  /\ loop = [phase |-> "REVERSE", i |-> 1, j |-> 0, len |-> 2, k |-> 0, c |-> 1]

\* for (; j & bit; bit >>= 1) j ^= bit;  j |= bit;   from bit = n >> 1.
RECURSIVE Incremented(_, _)
Incremented(j, bit) ==
  IF (j \div bit) % 2 = 1 THEN Incremented(j - bit, bit \div 2) ELSE j + bit

Reverse ==
  /\ loop.phase = "REVERSE"
  /\ LET j == Incremented(loop.j, FFT_LEN \div 2)
         i == loop.i
     IN  /\ re' = IF i < j THEN [re EXCEPT ![i] = re[j], ![j] = re[i]] ELSE re
         /\ loop' = IF i = FFT_LEN - 1
                    THEN [loop EXCEPT !.phase = "BUTTERFLY", !.i = 0, !.j = 0]
                    ELSE [loop EXCEPT !.i = i + 1, !.j = j]
  /\ UNCHANGED signal

\* Mutant: the factor goes on from one group of butterflies to the next.
AdvancedOnly ==
  LET w == Raised(ROOT, FFT_LEN \div loop.len)
  IN  IF loop.k + 1 < loop.len \div 2
      THEN [loop EXCEPT !.k = @ + 1, !.c = (@ * w) % PRIME]
      ELSE IF loop.i + loop.len < FFT_LEN
      THEN [loop EXCEPT !.i = @ + loop.len, !.k = 0]
      ELSE IF 2 * loop.len <= FFT_LEN
      THEN [loop EXCEPT !.len = 2 * @, !.i = 0, !.k = 0, !.c = 1]
      ELSE [loop EXCEPT !.phase = "DONE"]

\* The next (len, i, k) of the three loops; the factor restarts with each i.
Advanced ==
  LET w == Raised(ROOT, FFT_LEN \div loop.len)
  IN  IF loop.k + 1 < loop.len \div 2
      THEN [loop EXCEPT !.k = @ + 1, !.c = (@ * w) % PRIME]
      ELSE IF loop.i + loop.len < FFT_LEN
      THEN [loop EXCEPT !.i = @ + loop.len, !.k = 0, !.c = 1]
      ELSE IF 2 * loop.len <= FFT_LEN
      THEN [loop EXCEPT !.len = 2 * @, !.i = 0, !.k = 0, !.c = 1]
      ELSE [loop EXCEPT !.phase = "DONE"]

Butterfly ==
  /\ loop.phase = "BUTTERFLY"
  /\ LET a == loop.i + loop.k
         b == a + loop.len \div 2
         v == re[b] * loop.c
     IN  re' = [re EXCEPT ![a] = (re[a] + v) % PRIME, ![b] = (re[a] - v) % PRIME]
  /\ loop' = Advanced
  /\ UNCHANGED signal

FftNext == Reverse \/ Butterfly

-----------------------------------------------------------------------------
(* Properties                                                              *)

\* The definition: X[k] = sum over n of x[n] w^(n k).
Transform(x) ==
  [k \in 0 .. FFT_LEN - 1 |->
    MapThenSumSet(LAMBDA n : x[n] * Raised(ROOT, n * k), 0 .. FFT_LEN - 1) % PRIME]

\* When the loops end the array holds the discrete Fourier transform of the
\* samples, in natural order, which mfcc.c's power spectrum reads off.
FftIsTransform == loop.phase = "DONE" => re = Transform(signal)

=============================================================================
