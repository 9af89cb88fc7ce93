--------------------------- MODULE MCNatsReceiver ---------------------------
(* Model-checking constants for NatsReceiver.                              *)
EXTENDS NatsReceiver, TLC

CONSTANTS r1, r2,          \* receivers
          m1, m2, bad,     \* messages; bad is the one that cannot be read
          durable, other   \* consumer names

\* The readable messages, and the receivers, are interchangeable.
Symmetry == Permutations(Receivers) \cup Permutations(Messages \ Poison)

=============================================================================
