---------------------------- MODULE MCSPSCQueue ----------------------------
(* SPSCQueue on small rings, with the mask of the processor.               *)
EXTENDS SPSCQueue, Bitwise

\* The processor masks: it is the remainder SPSCQueue takes, for powers of two.
ASSUME MaskAssumption ==
  \A n \in {1, 2, 4, 8, 16, 32, 64} : \A i \in 0 .. n - 1 : ((i + 1) & (n - 1)) = (i + 1) % n
=============================================================================
