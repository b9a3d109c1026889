---------------------------- MODULE BoundedQueue ----------------------------
(***************************************************************************)
(* What a synchronous FIFO promises: a queue of at most DEPTH words.  In a *)
(* cycle it may take a word in, refuse one because it is full, and give    *)
(* its oldest word out; a word given out is presented for one cycle.       *)
(***************************************************************************)
EXTENDS Naturals, Sequences

CONSTANTS DEPTH, VALUES

VARIABLES
  q,        \* the words held, oldest first
  given,    \* the word presented in this cycle, if any
  refused   \* the last word offered was refused

queueVars == <<q, given, refused>>

Init == q = <<>> /\ given = <<>> /\ refused = FALSE

Offered(w) == w # <<>>

\* w: the word offered, or none, as a sequence; r: a word is asked for.
Cycle(w, r) ==
  /\ q' = (IF r /\ q # <<>> THEN Tail(q) ELSE q) \o (IF Len(q) < DEPTH THEN w ELSE <<>>)
  /\ given' = IF r /\ q # <<>> THEN <<Head(q)>> ELSE <<>>
  /\ refused' = (Offered(w) /\ Len(q) = DEPTH)

Next == \E w \in {<<>>} \cup {<<v>> : v \in VALUES}, r \in BOOLEAN : Cycle(w, r)

Spec == Init /\ [][Next]_queueVars
=============================================================================
