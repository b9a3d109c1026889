---------------------------- MODULE MCArithmetic ----------------------------
(***************************************************************************)
(* Three benches on the arithmetic, one per behaviour: the engines against *)
(* the reference layers, the requantiser against its definition over a     *)
(* sweep of accumulators, and the Fourier transform against its.           *)
(***************************************************************************)
EXTENDS Inference, Fft

CONSTANTS MULTIPLIERS, SHIFTS     \* what the sweep multiplies and shifts by

VARIABLES bench, sample

vars == <<bench, inferenceVars, fftVars, sample>>

Accumulators == -(2^(ACC_W - 1)) .. 2^(ACC_W - 1) - 1

Init ==
  /\ InferenceInit /\ FftInit
  /\ \/ bench = "engines" /\ signal = [n \in 0 .. FFT_LEN - 1 |-> 0]
        /\ sample = [acc |-> 0, m |-> 1, s |-> 1, relu |-> FALSE]
     \/ bench = "fft" /\ sample = [acc |-> 0, m |-> 1, s |-> 1, relu |-> FALSE]
     \/ bench = "requant" /\ signal = [n \in 0 .. FFT_LEN - 1 |-> 0]
        /\ \E m \in MULTIPLIERS, s \in SHIFTS, relu \in BOOLEAN :
             sample = [acc |-> -(2^(ACC_W - 1)), m |-> m, s |-> s, relu |-> relu]

EnginesStep == bench = "engines" /\ InferenceNext /\ UNCHANGED <<bench, fftVars, sample>>
FftStep     == bench = "fft" /\ FftNext /\ UNCHANGED <<bench, inferenceVars, sample>>

\* The sweep of the accumulator.
NextSample ==
  /\ bench = "requant" /\ sample.acc + 1 \in Accumulators
  /\ sample' = [sample EXCEPT !.acc = @ + 1]
  /\ UNCHANGED <<bench, inferenceVars, fftVars>>

Next == EnginesStep \/ FftStep \/ NextSample

Spec     == Init /\ [][Next]_vars
FairSpec == Spec /\ WF_vars(bench = "engines" /\ Edge /\ UNCHANGED <<bench, fftVars, sample>>)

\* kws_requant, and the unit that does it on bits, round acc * m / 2^s to the
\* nearest integer, halves upwards, clamp it to the data type and then apply
\* the ReLU, for negative accumulators and at every power of two too.
RequantRounds ==
  LET r       == kws_requant(sample.acc, sample.m, sample.s, sample.relu)
      y       == kws_requant(sample.acc, sample.m, sample.s, FALSE)
      doubled == 2 * sample.acc * sample.m
  IN  /\ y \in Data
      /\ y = Largest  \/ doubled < 2^sample.s * (2 * y + 1)
      /\ y = Smallest \/ doubled >= 2^sample.s * (2 * y - 1)
      /\ r = IF sample.relu THEN Max({y, 0}) ELSE y
      /\ ActivationUnit(sample.acc, sample.m, sample.s, sample.relu) = r

-----------------------------------------------------------------------------
(* Values of the constants.                                                *)

MCConvW ==      \* [channel][tap][coefficient]
  [oc \in 0 .. 3 |-> [k \in 0 .. 1 |-> [ic \in 0 .. 2 |->
     ((5 * oc + 7 * k + 3 * ic + 2 * oc * ic + 1) % 16) - 8]]]
MCConvB  == [oc \in 0 .. 3 |-> <<17, -40, 3, 25>>[oc + 1]]
MCDenseW == [c \in 0 .. 2 |-> [i \in 0 .. 7 |-> ((7 * c + 3 * i + c * i) % 16) - 8]]
MCDenseB == [c \in 0 .. 2 |-> <<-5, 12, 12>>[c + 1]]

\* Features: a ramp with signs, its negation, all alike (the classes tie).
Window(f(_, _)) == [t \in 0 .. 4 |-> [ic \in 0 .. 2 |-> f(t, ic)]]
MCWindows ==
  {Window(LAMBDA t, ic : ((3 * t + 5 * ic + t * ic) % 16) - 8),
   Window(LAMBDA t, ic : IF (t + ic) % 2 = 0 THEN 7 ELSE -8),
   Window(LAMBDA t, ic : 0)}

MCSignals == [0 .. 7 -> {0, 6}]

=============================================================================
