--------------------------- MODULE MCCoreReceiver ---------------------------
(* Model-checking constants for CoreReceiver.                              *)
EXTENDS CoreReceiver, TLC

CONSTANTS r1, r2,          \* receivers
          m1, m2, bad      \* messages; bad is the one that cannot be read

\* The readable messages, and the receivers, are interchangeable.
Symmetry == Permutations(Receivers) \cup Permutations(Messages \ Poison)

=============================================================================
