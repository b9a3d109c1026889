------------------------------- MODULE KwsMath -------------------------------
(***************************************************************************)
(* Integer operations both halves of the system use: two's complement of a *)
(* given width, the average of a power of two of values, the argmax.       *)
(***************************************************************************)
EXTENDS Integers

\* x in w bits, two's complement.
Signed(x, w) == ((x + 2^(w - 1)) % 2^w) - 2^(w - 1)

\* sum >>> log2(depth): rounds down, for negative sums too.
Average(sum, depth) == sum \div depth

\* The lowest index of the largest value of v.
Argmax(v) ==
  CHOOSE i \in DOMAIN v :
    \A j \in DOMAIN v : v[j] <= v[i] /\ (j < i => v[j] < v[i])

=============================================================================
